---- MODULE Spec2Model ----
(***************************************************************************)
(* A model of the mmids-core workflow runner (workflows/runner.rs) driving *)
(* the two step implementations of the repository, the RTMP receive step   *)
(* (steps/rtmp_receive/mod.rs) and the RTMP watch step                     *)
(* (steps/rtmp_watch/mod.rs).                                              *)
(*                                                                         *)
(* The runner is one actor: its handlers run to completion, so each        *)
(* handler of Actor::run is one action.  The RTMP endpoint and the owners  *)
(* of the request channel are the environment.                             *)
(***************************************************************************)
EXTENDS Integers, Sequences, FiniteSets, TLC

(***************************************************************************)
(* Bounds of the model.                                                    *)
(***************************************************************************)
\* Number of publisher connections (each brings a fresh stream id).
NumStreams == 1
\* Number of UpdateDefinition requests the channel owners send.
MaxUpdates == 1
\* Number of sequence headers a publisher sends on one stream.
MaxHeaders == 1
\* Number of connections the RTMP endpoint names in its messages to one
\* receive step.
NumConnections == 2
\* Number of NewPublisherConnected messages the endpoint sends that step.
MaxPublishers == 2

(***************************************************************************)
(* The workflow definitions in play.  A definition is the sequence of its  *)
(* steps' ids (WorkflowStepDefinition::get_id).  Step 1 is an rtmp_receive *)
(* step, steps 2 and 3 are rtmp_watch steps, and step 4 is an rtmp_receive *)
(* definition without the rtmp_app parameter, which the generator rejects. *)
(***************************************************************************)
StepIds == {1, 2, 3, 4}

Definitions ==
    { <<1, 2>>, <<2>>, <<1, 3, 2>>, <<3, 3, 4>>, <<2, 3>> }

\* The definitions handed to runner::start.
InitialDefinitions == { <<1, 2>>, <<2, 1, 3>> }

StepKind(id) ==
    IF id \in {1, 4} THEN "rtmp_receive" ELSE "rtmp_watch"

StreamIds == 1 .. NumStreams

VARIABLES
    pc,                      \* "new", "running" or "closed": position in Actor::run
    steps_by_definition_id,  \* step id -> step instance
    active_steps,            \* sequence of step ids
    pending_steps,           \* sequence of step ids
    futures,                 \* step id -> number of unresolved step futures
    cached_step_media,       \* step id -> (stream id -> sequence of notifications)
    active_streams,          \* stream id -> originating_step_id
    requests,                \* the WorkflowRequest channel's queue
    senders_dropped,         \* every sender of the channel is dropped
    updates_sent,            \* number of requests sent so far
    next_stream,             \* next fresh stream id the endpoint hands out
    executed,                \* history: the step executions of the last handler
    factory_calls,           \* history: ids the factory was asked for by the last handler
    swapped,                 \* history: the last handler committed a swap
    removal_streams,         \* history: active_streams as the swap of the last handler found it
    resolved,                \* history: the step future the last handler took, if any
    dropped_futures          \* history: step futures unresolved when the loop was left

vars ==
    << pc, steps_by_definition_id, active_steps, pending_steps, futures,
       cached_step_media, active_streams, requests, senders_dropped,
       updates_sent, next_stream, executed, factory_calls, swapped,
       removal_streams, resolved, dropped_futures >>

(***************************************************************************)
(* The reactor (reactors/reactor.rs) is a second actor with its own state. *)
(* The owners of its request channel, the consumers holding the receivers  *)
(* of the response channels, the executor, the event hub and the workflow  *)
(* managers are its environment.                                           *)
(***************************************************************************)
\* Number of CreateWorkflowNameForStream requests sent (one response channel each).
MaxRequests == 2
\* Number of WorkflowManagerRegistered events the event hub sends.
MaxRegistrations == 2
\* Number of update timers that expire.
MaxPolls == 1
\* Number of channels the environment drops its end of, besides the
\* response channels: the request senders, the event hub's sender and the
\* workflow managers' receivers.
MaxDrops == 1

StreamNames == {"live/1", "live/2"}

\* The workflow definitions the executor may return: two of the same name
\* with different steps, and one of another name.
WorkflowDefinitions ==
    { [name |-> "w1", steps |-> 1], [name |-> "w1", steps |-> 2],
      [name |-> "w2", steps |-> 1] }

\* The workflow manager channels the event hub may announce.
Managers == {1, 2}

ResponseChannels == 1 .. MaxRequests

VARIABLES
    reactor_pc,                        \* "new", "running" or "closed": position in Actor::run
    update_interval,                   \* 0, or 1 for any non-zero Duration
    workflow_manager,                  \* 0 for None, else a manager channel
    cached_workflows_for_stream_name,  \* stream name -> definition
    stream_response_channels,          \* stream name -> sequence of response channels
    reactor_futures,                   \* the unresolved futures besides the two receivers
    reactor_requests,                  \* the ReactorRequest channel's queue
    request_senders_dropped,           \* every sender of that channel is dropped
    hub_events,                        \* the WorkflowManagerEvent channel's queue
    hub_dropped,                       \* the event hub dropped its sender
    closed_response_channels,          \* response channels whose receiver is dropped
    closed_managers,                   \* manager channels whose receiver is dropped
    requests_sent,                     \* number of requests sent so far
    registrations_sent,                \* number of registration events sent so far
    polls,                             \* number of update timers expired so far
    handled,                           \* history: the FutureResult the last step handled
    before,                            \* history: the actor's fields as that handler found them
    sent,                              \* history: the messages the last handler sent
    called,                            \* history: the stream names it called get_workflow for
    scheduled,                         \* history: the stream names it pushed an update timer for
    stale,                             \* history: it handled a lookup in flight when the entry was dropped
    repeated_updates,                  \* history: channels it delivered their last update to again
    cancelled,                         \* history: stream name -> lookups in flight at the entry's drop
    last_update,                       \* history: response channel -> last update delivered
    upserts_sent,                      \* history: number of UpsertWorkflow requests sent
    distinct_results                   \* history: the Some(def) results for consumed streams

reactor_vars ==
    << reactor_pc, update_interval, workflow_manager,
       cached_workflows_for_stream_name, stream_response_channels,
       reactor_futures, reactor_requests, request_senders_dropped, hub_events,
       hub_dropped, closed_response_channels, closed_managers, requests_sent,
       registrations_sent, polls, handled, before, sent, called, scheduled,
       stale, repeated_updates, cancelled, last_update, upserts_sent,
       distinct_results >>

(***************************************************************************)
(* The configuration parser (config.rs).  Its input is the tree of pairs   *)
(* the grammar yields for a text: a sequence of node blocks, each with its *)
(* name, its arguments and its child nodes.                                *)
(***************************************************************************)
\* Number of node blocks of an input.
MaxBlocks == 3
MaxPackets == 3

VARIABLES
    parse_pc,       \* "idle", "parsing" or "done": position in parse
    content,        \* the node blocks of the input
    next_block,     \* index of the block the loop of parse handles next
    config,         \* the MmidsConfig parse builds
    parse_error,    \* the ConfigParseError parse returned, if any
    returned        \* the MmidsConfig parse returned, if any

config_vars ==
    << parse_pc, content, next_block, config, parse_error, returned >>

(***************************************************************************)
(* One RtmpReceiverStep (steps/rtmp_receive/mod.rs) and the channel of     *)
(* RtmpEndpointPublisherMessage it listens on, seen apart from the runner. *)
(* The RTMP endpoint is its environment.                                   *)
(***************************************************************************)
VARIABLES
    receiver,            \* the RtmpReceiverStep
    receiver_waiting,    \* the step holds a wait_for_rtmp_endpoint_response future
    publishers,          \* number of NewPublisherConnected messages received so far
    publishing,          \* history: connection id -> stream id announced, publishing not stopped
    received,            \* history: the notification of the last execute, if any
    emitted,             \* history: outputs.media of the last execute
    emitted_open,        \* history: connection id -> stream id of the NewIncomingStream
                         \*          emitted for it, no StreamDisconnected emitted since
    emitted_count        \* history: << type, stream id >> -> number of NewIncomingStream
                         \*          and StreamDisconnected notifications emitted

receiver_vars ==
    << receiver, receiver_waiting, publishers, publishing, received, emitted,
       emitted_open, emitted_count >>

(***************************************************************************)
(* One H264MediaSender (webrtc/h264_media_sender.rs) and the channel it    *)
(* sends on.  An RTP packet is its payload, a sequence of bytes.           *)
(***************************************************************************)
VARIABLES
    media_channel,       \* the Video notifications sent on the channel so far
    cached_packet,       \* the H264Packet: the FU-A fragments buffered, if any
    has_sent_keyframe,   \* the field of that name
    sender_log           \* history: the payload of every packet passed to
                         \*          send_rtp_data, with what became of it

sender_vars == << media_channel, cached_packet, has_sent_keyframe, sender_log >>

(***************************************************************************)
(* Helpers on sequences and maps.                                          *)
(***************************************************************************)
Range(s) == { s[i] : i \in DOMAIN s }

Contains(s, x) == \E i \in DOMAIN s : s[i] = x

MapPut(f, k, v) == [ x \in (DOMAIN f) \cup {k} |-> IF x = k THEN v ELSE f[x] ]

MapDel(f, k) == [ x \in (DOMAIN f) \ {k} |-> f[x] ]

EmptyMap == [ x \in {} |-> 0 ]

\* Option<T>: a sequence of no element or of one.
None == << >>

Some(x) == << x >>

\* The orders in which a HashMap over stream ids may be iterated.
StreamOrders ==
    { o \in [ 1 .. NumStreams -> StreamIds ] :
        \A i, j \in 1 .. NumStreams : i # j => o[i] # o[j] }

(***************************************************************************)
(* Media notifications (workflows::MediaNotification).                     *)
(***************************************************************************)
Media(stream_id, type, is_sequence_header) ==
    [ stream_id |-> stream_id, type |-> type,
      is_sequence_header |-> is_sequence_header ]

NewIncomingStream(z) == Media(z, "NewIncomingStream", FALSE)

StreamDisconnected(z) == Media(z, "StreamDisconnected", FALSE)

(***************************************************************************)
(* Step future results.  kind is the concrete type behind the              *)
(* Box<dyn StepFutureResult>; msg is "Gone" when the endpoint dropped its  *)
(* sender, else the endpoint's message.  conn is the connection id of the  *)
(* message and stream_id the stream id of NewPublisherConnected; the       *)
(* endpoint the runner talks to gives connection c the stream id c.        *)
(***************************************************************************)
FutureResult(kind, msg, conn, is_sequence_header) ==
    [ kind |-> kind, msg |-> msg, conn |-> conn, stream_id |-> conn,
      is_sequence_header |-> is_sequence_header ]

StepOutput(step, media, nfutures) ==
    [ step |-> step, media |-> media, futures |-> nfutures ]

\* A freshly generated step: status Created, empty maps.  seen and open are
\* history: the streams this instance was given media for, and those it was
\* given NewIncomingStream for and no StreamDisconnected since.
NewStep(id) ==
    [ kind |-> StepKind(id), status |-> "Created",
      connection_stream_id_map |-> EmptyMap, stream_id_to_name_map |-> {},
      seen |-> {}, open |-> {} ]

\* StepGenerator::generate: fails for a definition without rtmp_app.
GenerateFails(id) == id = 4

(***************************************************************************)
(* RtmpReceiverStep.  connection_stream_id_map maps the connection id of a *)
(* publisher to the stream id the endpoint announced it with.              *)
(***************************************************************************)
\* A lookup that takes the connection id for the stream id of a connection
\* the map does not hold.
PublisherStreamIdOrConnection(map, publisher) ==
    IF publisher \in DOMAIN map THEN Some(map[publisher]) ELSE Some(publisher)

\* self.connection_stream_id_map.get(&publisher)
PublisherStreamId(map, publisher) ==
    IF publisher \in DOMAIN map THEN Some(map[publisher]) ELSE None

handle_rtmp_publisher_message(step, m) ==
    LET stream_id == PublisherStreamId(step.connection_stream_id_map, m.conn) IN
    CASE m.msg = "PublisherRegistrationFailed" ->
            StepOutput([step EXCEPT !.status = "Error"], <<>>, 1)
      [] m.msg = "PublisherRegistrationSuccessful" ->
            StepOutput([step EXCEPT !.status = "Active"], <<>>, 1)
      [] m.msg = "NewPublisherConnected" ->
            StepOutput([step EXCEPT !.connection_stream_id_map =
                                       MapPut(@, m.conn, m.stream_id)],
                       << NewIncomingStream(m.stream_id) >>, 1)
      [] m.msg = "PublishingStopped" ->
            IF m.conn \in DOMAIN step.connection_stream_id_map
            THEN StepOutput([step EXCEPT !.connection_stream_id_map = MapDel(@, m.conn)],
                            << StreamDisconnected(step.connection_stream_id_map[m.conn]) >>,
                            1)
            ELSE StepOutput(step, <<>>, 1)
      [] m.msg = "StreamMetadataChanged" ->
            IF stream_id # None
            THEN StepOutput(step, << Media(stream_id[1], "Metadata", FALSE) >>, 1)
            ELSE StepOutput(step, <<>>, 1)
      [] m.msg = "NewVideoData" ->
            IF stream_id # None
            THEN StepOutput(step, << Media(stream_id[1], "Video", m.is_sequence_header) >>, 1)
            ELSE StepOutput(step, <<>>, 1)
      [] m.msg = "NewAudioData" ->
            IF stream_id # None
            THEN StepOutput(step, << Media(stream_id[1], "Audio", m.is_sequence_header) >>, 1)
            ELSE StepOutput(step, <<>>, 1)
      [] OTHER -> StepOutput(step, <<>>, 1)

\* RtmpReceiverStep::execute.  The runner hands a step at most one
\* notification per call; media inputs are not read.
RtmpReceiveExecute(step, notifications, media) ==
    IF notifications = <<>>
    THEN StepOutput(step, <<>>, 0)
    ELSE LET m == notifications[1] IN
         IF m.kind # "rtmp_receive" \/ m.msg = "Gone"
         THEN StepOutput([step EXCEPT !.status = "Error"], <<>>, 0)
         ELSE handle_rtmp_publisher_message(step, m)

(***************************************************************************)
(* RtmpWatchStep.  stream_id_to_name_map is modelled by its key set.       *)
(***************************************************************************)
handle_endpoint_notification(step, m) ==
    CASE m.msg = "WatcherRegistrationFailed" -> [step EXCEPT !.status = "Error"]
      [] m.msg = "WatcherRegistrationSuccessful" -> [step EXCEPT !.status = "Active"]
      [] OTHER -> step

RECURSIVE handle_media(_, _)
handle_media(step, media) ==
    IF media = <<>>
    THEN step
    ELSE LET m == Head(media)
             step2 ==
                 IF step.status # "Active" THEN step
                 ELSE IF m.type = "NewIncomingStream"
                 THEN [step EXCEPT !.stream_id_to_name_map = @ \cup {m.stream_id}]
                 ELSE IF m.type = "StreamDisconnected"
                 THEN [step EXCEPT !.stream_id_to_name_map = @ \ {m.stream_id}]
                 ELSE step
         IN handle_media(step2, Tail(media))

\* RtmpWatchStep::execute: every media input is pushed to the outputs.
RtmpWatchExecute(step, notifications, media) ==
    IF step.status = "Error"
    THEN StepOutput(step, <<>>, 0)
    ELSE IF notifications # <<>>
              /\ (notifications[1].kind # "rtmp_watch" \/ notifications[1].msg = "Gone")
    THEN StepOutput([step EXCEPT !.status = "Error"], <<>>, 0)
    ELSE LET step2 == IF notifications = <<>> THEN step
                      ELSE handle_endpoint_notification(step, notifications[1])
         IN StepOutput(handle_media(step2, media), media,
                       IF notifications = <<>> THEN 0 ELSE 1)

\* WorkflowStep::execute, dispatched on the step's concrete type.
StepExecute(step, notifications, media) ==
    IF step.kind = "rtmp_receive"
    THEN RtmpReceiveExecute(step, notifications, media)
    ELSE RtmpWatchExecute(step, notifications, media)

(***************************************************************************)
(* The runner (workflows/runner.rs).  The handlers are written as          *)
(* operators on a record a of the actor's fields:                          *)
(*   steps, active, pending, futures, cache, streams   the Actor's fields  *)
(*   notifications, media                              step_inputs         *)
(*   executed, factory_calls, swapped,                                     *)
(*   removal_streams                                   history             *)
(* step_outputs is local to execute_step.  step_inputs is cleared or       *)
(* overwritten by every caller before it is read, so it is not kept        *)
(* between handlers.                                                       *)
(***************************************************************************)

\* The map registering and dropping streams whatever step outputs the
\* notification.
RECURSIVE update_stream_details_of_any_step(_, _, _)
update_stream_details_of_any_step(streams, current_step_id, media) ==
    IF media = <<>>
    THEN streams
    ELSE LET m == Head(media)
             streams2 ==
                 IF m.type = "NewIncomingStream"
                 THEN MapPut(streams, m.stream_id, current_step_id)
                 ELSE IF m.type = "StreamDisconnected" /\ m.stream_id \in DOMAIN streams
                 THEN MapDel(streams, m.stream_id)
                 ELSE streams
         IN update_stream_details_of_any_step(streams2, current_step_id, Tail(media))

\* Actor::update_stream_details, over the outputs of step current_step_id.
RECURSIVE update_stream_details(_, _, _)
update_stream_details(streams, current_step_id, media) ==
    IF media = <<>>
    THEN streams
    ELSE LET m == Head(media)
             streams2 ==
                 IF m.type = "NewIncomingStream"
                 THEN IF m.stream_id \notin DOMAIN streams
                      THEN MapPut(streams, m.stream_id, current_step_id)
                      ELSE streams
                 ELSE IF m.type = "StreamDisconnected"
                 THEN IF m.stream_id \in DOMAIN streams
                         /\ streams[m.stream_id] = current_step_id
                      THEN MapDel(streams, m.stream_id)
                      ELSE streams
                 ELSE streams
         IN update_stream_details(streams2, current_step_id, Tail(media))

\* Every notification but a disconnection added to the cache.
CacheOperationAddsAll(m) ==
    IF m.type = "StreamDisconnected" THEN "Remove" ELSE "Add"

\* The Operation chosen for one notification by update_media_cache_from_outputs.
CacheOperation(m) ==
    CASE m.type = "StreamDisconnected" -> "Remove"
      [] m.type = "NewIncomingStream" -> "Add"
      [] m.type = "Metadata" -> "Ignore"
      [] m.type \in {"Video", "Audio"} ->
            IF m.is_sequence_header THEN "Add" ELSE "Ignore"

\* Actor::update_media_cache_from_outputs, on the cache of one step.
RECURSIVE update_media_cache_from_outputs(_, _)
update_media_cache_from_outputs(step_cache, media) ==
    IF media = <<>>
    THEN step_cache
    ELSE LET m == Head(media)
             op == CacheOperation(m)
             step_cache2 ==
                 CASE op = "Ignore" -> step_cache
                   [] op = "Remove" ->
                         IF m.stream_id \in DOMAIN step_cache
                         THEN MapDel(step_cache, m.stream_id)
                         ELSE step_cache
                   [] op = "Add" ->
                         MapPut(step_cache, m.stream_id,
                                Append(IF m.stream_id \in DOMAIN step_cache
                                       THEN step_cache[m.stream_id] ELSE <<>>, m))
         IN update_media_cache_from_outputs(step_cache2, Tail(media))

\* History kept with a step instance: what media it was executed with.
RECURSIVE Observe(_, _)
Observe(step, media) ==
    IF media = <<>>
    THEN step
    ELSE LET m == Head(media)
             step2 ==
                 [step EXCEPT
                    !.seen = @ \cup {m.stream_id},
                    !.open = IF m.type = "NewIncomingStream" THEN @ \cup {m.stream_id}
                             ELSE IF m.type = "StreamDisconnected" THEN @ \ {m.stream_id}
                             ELSE @]
         IN Observe(step2, Tail(media))

\* Actor::execute_step.
execute_step(a, step_id) ==
    IF step_id \notin DOMAIN a.steps
    THEN a
    ELSE LET out == StepExecute(a.steps[step_id], a.notifications, a.media)
             cache == IF step_id \in DOMAIN a.cache THEN a.cache[step_id] ELSE EmptyMap
         IN [a EXCEPT
               !.steps = MapPut(@, step_id, Observe(out.step, a.media)),
               !.futures = [@ EXCEPT ![step_id] = @ + out.futures],
               !.streams = update_stream_details(@, step_id, out.media),
               !.cache = MapPut(@, step_id,
                                update_media_cache_from_outputs(cache, out.media)),
               !.executed =
                   Append(@, [step_id |-> step_id,
                              notifications |-> a.notifications, media |-> a.media,
                              output |-> out.media,
                              streams_before |-> a.streams,
                              streams_after |->
                                  update_stream_details(a.streams, step_id, out.media),
                              cache_before |-> cache,
                              cache_after |->
                                  update_media_cache_from_outputs(cache, out.media)]),
               !.notifications = <<>>,
               !.media = out.media]

RECURSIVE ExecuteEach(_, _)
ExecuteEach(a, ids) ==
    IF ids = <<>> THEN a ELSE ExecuteEach(execute_step(a, Head(ids)), Tail(ids))

\* The traversal started at the first step of the list, whatever step x is.
IndexOfFirstStep(s, x) ==
    IF Contains(s, x) THEN 1 ELSE 0

\* The position of the first occurrence of x in s, 0 when there is none.
IndexOf(s, x) ==
    IF Contains(s, x) THEN CHOOSE i \in DOMAIN s : s[i] = x /\ \A j \in 1 .. (i - 1) : s[j] # x
    ELSE 0

\* Actor::execute_steps up to its pending check: future_result is the
\* sequence of zero or one future results.
ExecuteStepsTraversal(a, initial_step_id, future_result, preserve_current_step_inputs) ==
    LET a1 == [a EXCEPT
                 !.notifications =
                     (IF preserve_current_step_inputs THEN @ ELSE <<>>) \o future_result,
                 !.media = IF preserve_current_step_inputs THEN @ ELSE <<>>]
        start_index == IndexOf(a1.active, initial_step_id)
    IN IF start_index # 0
       THEN ExecuteEach(a1, SubSeq(a1.active, start_index, Len(a1.active)))
       ELSE execute_step(a1, initial_step_id)

(***************************************************************************)
(* Actor::check_if_all_pending_steps_are_active.                           *)
(***************************************************************************)

\* The scan without its early return for a step in Error and without
\* any_pending for a step still Created.
AllPendingStepsPresent(a) ==
    /\ Len(a.pending) > 0
    /\ \A i \in DOMAIN a.pending : a.pending[i] \in DOMAIN a.steps

\* The scan passing over a pending id the table does not hold.
AllPendingStepsInTableActive(a) ==
    /\ Len(a.pending) > 0
    /\ \A i \in DOMAIN a.pending :
          a.pending[i] \in DOMAIN a.steps => a.steps[a.pending[i]].status = "Active"

\* The scan of the pending list: the swap goes ahead when the list is not
\* empty and the scan neither returned early (a step missing from the table
\* or in Error) nor set any_pending (a step still Created).
AllPendingStepsActive(a) ==
    /\ Len(a.pending) > 0
    /\ \A i \in DOMAIN a.pending :
          /\ a.pending[i] \in DOMAIN a.steps
          /\ a.steps[a.pending[i]].status = "Active"

\* The inner loop of the removal pass: the disconnection of stream key is
\* given to every active step from position x on, each on its own.
RECURSIVE RaiseDisconnection(_, _, _)
RaiseDisconnection(a, x, key) ==
    IF x > Len(a.active)
    THEN a
    ELSE RaiseDisconnection(
            execute_step([a EXCEPT !.notifications = <<>>,
                                   !.media = << StreamDisconnected(key) >>],
                         a.active[x]),
            x + 1, key)

\* The disconnection given to every step of the active list.
FirstDownstreamIsFirstStep(index) == 1

\* The disconnection skipping the step right after the removed one.
FirstDownstreamSkipsOne(index) == index + 2

\* Line 300: the disconnection goes to the positions after the removed step.
FirstDownstream(index) == index + 1

\* The removal pass for the streams of a removed step's cache, in the order
\* keys; index is the removed step's position in the active list.
RECURSIVE DisconnectStreamsOf(_, _, _, _)
DisconnectStreamsOf(a, index, step_id, keys) ==
    IF keys = <<>>
    THEN a
    ELSE LET key == Head(keys)
             a2 == IF key \in DOMAIN a.streams /\ a.streams[key] = step_id
                   THEN [RaiseDisconnection(a, FirstDownstream(index), key)
                            EXCEPT !.streams = MapDel(@, key)]
                   ELSE a
         IN DisconnectStreamsOf(a2, index, step_id, Tail(keys))

\* The removal pass, from position index of the active list down to 1.
RECURSIVE RemovalPass(_, _, _)
RemovalPass(a, index, order) ==
    IF index < 1
    THEN a
    ELSE LET step_id == a.active[index]
             a2 ==
                 IF Contains(a.pending, step_id)
                 THEN a
                 ELSE LET removed == [a EXCEPT !.steps = IF step_id \in DOMAIN @
                                                         THEN MapDel(@, step_id) ELSE @]
                      IN IF step_id \in DOMAIN a.cache
                         THEN DisconnectStreamsOf(
                                 [removed EXCEPT !.cache = MapDel(@, step_id)],
                                 index, step_id,
                                 SelectSeq(order, LAMBDA z : z \in DOMAIN a.cache[step_id]))
                         ELSE removed
         IN RemovalPass(a2, index - 1, order)

\* cache.values().flatten(): the per-stream vectors, one after the other in
\* the map's iteration order.
RECURSIVE Flatten(_, _)
Flatten(cache, keys) ==
    IF keys = <<>> THEN <<>> ELSE cache[Head(keys)] \o Flatten(cache, Tail(keys))

RECURSIVE Reversed(_)
Reversed(seq) ==
    IF seq = <<>> THEN <<>> ELSE Append(Reversed(Tail(seq)), Head(seq))

\* The cached notifications replayed last first.
ReplayNotificationsReversed(cache, order) ==
    Reversed(Flatten(cache, SelectSeq(order, LAMBDA z : z \in DOMAIN cache)))

ReplayNotifications(cache, order) ==
    Flatten(cache, SelectSeq(order, LAMBDA z : z \in DOMAIN cache))

\* The insertion replay pass, from position index of the pending list up.
\* Positions count from 1 here, so the pass starts at 2.
RECURSIVE ReplayPass(_, _, _)
ReplayPass(a, index, order) ==
    IF index > Len(a.pending)
    THEN a
    ELSE LET current_step_id == a.pending[index]
             previous_step_id == a.pending[index - 1]
             a2 ==
                 IF ~Contains(a.active, current_step_id)
                       /\ previous_step_id \in DOMAIN a.cache
                 THEN ExecuteStepsTraversal(
                         [a EXCEPT !.notifications = <<>>,
                                   !.media = ReplayNotifications(
                                                 a.cache[previous_step_id], order)],
                         current_step_id, <<>>, TRUE)
                 ELSE a
         IN ReplayPass(a2, index + 1, order)

\* The swap of the two lists without the clear that follows it.
CommitSwapWithoutClear(a) ==
    [a EXCEPT !.active = a.pending, !.pending = a.active, !.swapped = TRUE]

\* std::mem::swap of the two lists, then pending_steps.clear().
CommitSwap(a) ==
    [a EXCEPT !.active = a.pending, !.pending = <<>>, !.swapped = TRUE]

check_if_all_pending_steps_are_active(a, order) ==
    IF AllPendingStepsActive(a)
    THEN CommitSwap(
            ReplayPass(
               RemovalPass([a EXCEPT !.removal_streams = a.streams],
                           Len(a.active), order),
               2, order))
    ELSE a

\* Actor::execute_steps.
execute_steps(a, initial_step_id, future_result, preserve_inputs, perform_pending_check, order) ==
    LET a2 == ExecuteStepsTraversal(a, initial_step_id, future_result, preserve_inputs)
    IN IF perform_pending_check
       THEN check_if_all_pending_steps_are_active(a2, order)
       ELSE a2

(***************************************************************************)
(* Actor::apply_new_definition.                                            *)
(***************************************************************************)

\* The factory asked for every step of the definition.
NeedsNewStepAlways(steps, id) == TRUE

\* Line 141: the factory is asked only for an id the table does not hold.
NeedsNewStep(steps, id) == id \notin DOMAIN steps

\* The loop over definition.steps; a failure of the factory returns from
\* the function with the failed id already pushed on pending_steps.
RECURSIVE ApplySteps(_, _)
ApplySteps(a, ids) ==
    IF ids = <<>>
    THEN a
    ELSE LET id == Head(ids)
             pushed == [a EXCEPT !.pending = Append(@, id)]
         IN IF ~NeedsNewStep(a.steps, id)
            THEN ApplySteps(pushed, Tail(ids))
            ELSE LET asked == [pushed EXCEPT !.factory_calls = Append(@, id)]
                 IN IF GenerateFails(id)
                    THEN asked
                    ELSE ApplySteps(
                            [asked EXCEPT
                               !.futures = [@ EXCEPT ![id] = @ + 1],
                               !.steps = MapPut(@, id, NewStep(id))],
                            Tail(ids))

apply_new_definition(a, definition) ==
    ApplySteps([a EXCEPT !.pending = <<>>], definition)

(***************************************************************************)
(* The reactor's values and its state after construction.                  *)
(***************************************************************************)

\* The futures of the reactor besides wait_for_request and
\* wait_for_workflow_manager_event, one of each being pushed at all times:
\* the executor lookups and the update timers per stream name, the
\* notify_when_response_channel_closed futures as (channel, stream name),
\* and the manager channels a notify_workflow_manager_gone waits on.
NoReactorFutures ==
    [ executor |-> [ n \in StreamNames |-> 0 ],
      timers |-> [ n \in StreamNames |-> 0 ],
      response_closed |-> {},
      manager_gone |-> {} ]

\* reactor.rs FutureResult as the history keeps it: the variant, and its
\* stream name, its executor result and its channel where it has one.
ReactorResult(result, stream_name, workflow, channel) ==
    [ result |-> result, stream_name |-> stream_name, workflow |-> workflow,
      channel |-> channel ]

NoResult == ReactorResult("none", "", None, 0)

\* The fields of the actor that its handlers read.
ReactorFields(manager, cache, channels) ==
    [ manager |-> manager, cache |-> cache, channels |-> channels ]

NoFields == ReactorFields(0, EmptyMap, EmptyMap)

\* Actor::new of the reactor: no manager, empty maps; start_reactor has not
\* spawned Actor::run yet.
ReactorNew ==
    /\ reactor_pc = "new"
    /\ update_interval = 0
    /\ workflow_manager = 0
    /\ cached_workflows_for_stream_name = EmptyMap
    /\ stream_response_channels = EmptyMap
    /\ reactor_futures = NoReactorFutures
    /\ reactor_requests = << >>
    /\ request_senders_dropped = FALSE
    /\ hub_events = << >>
    /\ hub_dropped = FALSE
    /\ closed_response_channels = {}
    /\ closed_managers = {}
    /\ requests_sent = 0
    /\ registrations_sent = 0
    /\ polls = 0
    /\ handled = NoResult
    /\ before = NoFields
    /\ sent = << >>
    /\ called = << >>
    /\ scheduled = << >>
    /\ stale = FALSE
    /\ repeated_updates = {}
    /\ cancelled = [ n \in StreamNames |-> 0 ]
    /\ last_update = EmptyMap
    /\ upserts_sent = 0
    /\ distinct_results = {}

(***************************************************************************)
(* The configuration parser's values and its state before parse is called. *)
(***************************************************************************)
\* ConfigParseError: the variant, and its name and its line where it has one.
ConfigParseError(kind, name, line) ==
    [ kind |-> kind, name |-> name, line |-> line ]

NoError == ConfigParseError("none", "", 0)

\* MmidsConfig { settings: HashMap::new(), workflows: HashMap::new() }
NewConfig == [ settings |-> EmptyMap, workflows |-> EmptyMap ]

ParseNotCalled ==
    /\ parse_pc = "idle"
    /\ content = << >>
    /\ next_block = 1
    /\ config = NewConfig
    /\ parse_error = NoError
    /\ returned = None

\* The connection ids the endpoint names, and the stream ids it hands out:
\* ConnectionId and StreamId are distinct types, and each
\* NewPublisherConnected brings a stream id of its own.
Connections == 1 .. NumConnections

PublisherStreamIds == { 10 + n : n \in 1 .. MaxPublishers }

StreamEventTypes == {"NewIncomingStream", "StreamDisconnected"}

\* RtmpReceiverStepGenerator::generate: the step as generated, with one
\* future waiting on the receiver of its message channel.
ReceiverGenerated ==
    /\ receiver = NewStep(1)
    /\ receiver_waiting = TRUE
    /\ publishers = 0
    /\ publishing = EmptyMap
    /\ received = None
    /\ emitted = <<>>
    /\ emitted_open = EmptyMap
    /\ emitted_count = [ t \in StreamEventTypes \X PublisherStreamIds |-> 0 ]

\* H264MediaSender::new: nothing sent, nothing buffered, no key frame sent.
SenderNew ==
    /\ media_channel = <<>>
    /\ cached_packet = None
    /\ has_sent_keyframe = FALSE
    /\ sender_log = <<>>

(***************************************************************************)
(* The state machine.                                                      *)
(***************************************************************************)

\* Actor::new of the runner: empty tables and lists; Actor::run has not
\* started.  The reactor is as its own Actor::new leaves it, and parse has
\* not been called.
Init ==
    /\ pc = "new"
    /\ steps_by_definition_id = EmptyMap
    /\ active_steps = <<>>
    /\ pending_steps = <<>>
    /\ futures = [ id \in StepIds |-> 0 ]
    /\ cached_step_media = EmptyMap
    /\ active_streams = EmptyMap
    /\ requests = <<>>
    /\ senders_dropped = FALSE
    /\ updates_sent = 0
    /\ next_stream = 1
    /\ executed = <<>>
    /\ factory_calls = <<>>
    /\ swapped = FALSE
    /\ removal_streams = EmptyMap
    /\ resolved = None
    /\ dropped_futures = 0
    /\ ReactorNew
    /\ ParseNotCalled
    /\ ReceiverGenerated
    /\ SenderNew

\* The actor's fields as a handler finds them.
Actor ==
    [ steps |-> steps_by_definition_id, active |-> active_steps,
      pending |-> pending_steps, futures |-> futures,
      cache |-> cached_step_media, streams |-> active_streams,
      notifications |-> <<>>, media |-> <<>>,
      executed |-> <<>>, factory_calls |-> <<>>, swapped |-> FALSE,
      removal_streams |-> EmptyMap, resolved |-> None ]

\* The actor's fields as a handler leaves them.
Becomes(a) ==
    /\ steps_by_definition_id' = a.steps
    /\ active_steps' = a.active
    /\ pending_steps' = a.pending
    /\ futures' = a.futures
    /\ cached_step_media' = a.cache
    /\ active_streams' = a.streams
    /\ executed' = a.executed
    /\ factory_calls' = a.factory_calls
    /\ swapped' = a.swapped
    /\ removal_streams' = a.removal_streams
    /\ resolved' = a.resolved
    /\ UNCHANGED dropped_futures
    /\ UNCHANGED << reactor_vars, config_vars, receiver_vars, sender_vars >>

NoHandlerRan ==
    /\ executed' = <<>>
    /\ factory_calls' = <<>>
    /\ swapped' = FALSE
    /\ removal_streams' = EmptyMap
    /\ resolved' = None
    /\ UNCHANGED dropped_futures
    /\ UNCHANGED << reactor_vars, config_vars, receiver_vars, sender_vars >>

\* Actor::run up to its loop: the initial definition is applied.
Start(definition) ==
    /\ pc = "new"
    /\ pc' = "running"
    /\ Becomes(apply_new_definition(Actor, definition))
    /\ UNCHANGED << requests, senders_dropped, updates_sent, next_stream >>

\* An owner of the channel sends UpdateDefinition.
SendUpdate(definition) ==
    /\ ~senders_dropped
    /\ updates_sent < MaxUpdates
    /\ requests' = Append(requests, definition)
    /\ updates_sent' = updates_sent + 1
    /\ NoHandlerRan
    /\ UNCHANGED << pc, steps_by_definition_id, active_steps, pending_steps, futures,
                    cached_step_media, active_streams, senders_dropped, next_stream >>

\* A definition an owner may send after its other updates: one that names
\* a step of the earlier definitions alone.
LaterDefinitions == { <<2>> }

\* An owner of the channel sends one more UpdateDefinition.
SendUpdateAgain(definition) ==
    /\ ~senders_dropped
    /\ updates_sent = MaxUpdates
    /\ requests' = Append(requests, definition)
    /\ updates_sent' = updates_sent + 1
    /\ NoHandlerRan
    /\ UNCHANGED << pc, steps_by_definition_id, active_steps, pending_steps, futures,
                    cached_step_media, active_streams, senders_dropped, next_stream >>

\* The last sender of the channel is dropped.
DropSenders ==
    /\ ~senders_dropped
    /\ senders_dropped' = TRUE
    /\ NoHandlerRan
    /\ UNCHANGED << pc, steps_by_definition_id, active_steps, pending_steps, futures,
                    cached_step_media, active_streams, requests, updates_sent,
                    next_stream >>

\* wait_for_workflow_request yields a request: WorkflowRequestReceived.
HandleWorkflowRequest ==
    /\ pc = "running"
    /\ requests # <<>>
    /\ requests' = Tail(requests)
    /\ Becomes(apply_new_definition(Actor, Head(requests)))
    /\ UNCHANGED << pc, senders_dropped, updates_sent, next_stream >>

RECURSIVE SumFutures(_, _)
SumFutures(f, ids) ==
    IF ids = {} THEN 0
    ELSE LET id == CHOOSE x \in ids : TRUE IN f[id] + SumFutures(f, ids \ {id})

\* The loop going on after AllConsumersGone.
AfterAllConsumersGoneContinue == "running"

\* Where Actor::run is after AllConsumersGone: the loop is left.
AfterAllConsumersGone == "closed"

\* wait_for_workflow_request yields None: the queue is empty and no sender
\* is left.  Actor::run owns the actor, so leaving the loop drops its
\* tables, its lists and its unresolved futures.
HandleAllConsumersGone ==
    /\ pc = "running"
    /\ requests = <<>>
    /\ senders_dropped
    /\ pc' = AfterAllConsumersGone
    /\ IF pc' = "closed"
       THEN /\ steps_by_definition_id' = EmptyMap
            /\ active_steps' = <<>>
            /\ pending_steps' = <<>>
            /\ futures' = [ id \in StepIds |-> 0 ]
            /\ cached_step_media' = EmptyMap
            /\ active_streams' = EmptyMap
       ELSE UNCHANGED << steps_by_definition_id, active_steps, pending_steps,
                         futures, cached_step_media, active_streams >>
    /\ executed' = <<>>
    /\ factory_calls' = <<>>
    /\ swapped' = FALSE
    /\ removal_streams' = EmptyMap
    /\ resolved' = None
    /\ dropped_futures' = IF pc' = "closed" THEN SumFutures(futures, StepIds) ELSE 0
    /\ UNCHANGED << requests, senders_dropped, updates_sent, next_stream >>
    /\ UNCHANGED << reactor_vars, config_vars, receiver_vars, sender_vars >>

\* A stream of connection c at step id may carry one more sequence header.
MayAddHeader(id, c) ==
    /\ id \in DOMAIN cached_step_media
    /\ c \in DOMAIN cached_step_media[id]
    /\ Len(cached_step_media[id][c]) < 1 + MaxHeaders

\* What a step future of step id may resolve to.  The endpoint answers a
\* registration first, reports publishers, their metadata and their video
\* and audio (sequence headers and other frames) to a registered receiver,
\* and may drop its sender at any time.  A future whose step is no longer in the table resolves to a
\* result no step reads.
EndpointResults(id) ==
    LET kind == StepKind(id)
        gone == { FutureResult(kind, "Gone", 0, FALSE) }
    IN IF id \notin DOMAIN steps_by_definition_id
       THEN gone
       ELSE LET step == steps_by_definition_id[id] IN
            IF step.status = "Created"
            THEN gone \cup
                 (IF kind = "rtmp_receive"
                  THEN { FutureResult(kind, m, 0, FALSE) :
                           m \in {"PublisherRegistrationSuccessful",
                                  "PublisherRegistrationFailed"} }
                  ELSE { FutureResult(kind, m, 0, FALSE) :
                           m \in {"WatcherRegistrationSuccessful",
                                  "WatcherRegistrationFailed"} })
            ELSE IF step.status = "Error"
            THEN gone
            ELSE IF kind = "rtmp_watch"
            THEN gone \cup { FutureResult(kind, "StreamKeyBecameActive", 0, FALSE) }
            ELSE gone
                 \cup { FutureResult(kind, "NewPublisherConnected", c, FALSE) :
                          c \in { z \in StreamIds : z = next_stream } }
                 \cup { FutureResult(kind, m, c, FALSE) :
                          m \in {"PublishingStopped", "StreamMetadataChanged"},
                          c \in DOMAIN step.connection_stream_id_map }
                 \cup UNION { { FutureResult(kind, m, c, h) :
                                  m \in {"NewVideoData", "NewAudioData"},
                                  h \in { b \in BOOLEAN : b => MayAddHeader(id, c) } } :
                               c \in DOMAIN step.connection_stream_id_map }

\* The iteration order of a HashMap is read by the swap alone.
IdentityOrder == [ i \in 1 .. NumStreams |-> i ]

\* A step future of step id resolves: StepFutureResolved.
HandleStepFutureResolved(step_id, result, order) ==
    /\ pc = "running"
    /\ futures[step_id] > 0
    /\ result \in EndpointResults(step_id)
    /\ LET a == execute_steps(
                  [Actor EXCEPT !.futures = [@ EXCEPT ![step_id] = @ - 1],
                                !.resolved = Some([step_id |-> step_id,
                                                   result |-> result])],
                  step_id, << result >>, FALSE, TRUE, order)
       IN /\ (order # IdentityOrder => a.swapped)
          /\ Becomes(a)
    /\ next_stream' = IF result.msg = "NewPublisherConnected"
                      THEN next_stream + 1 ELSE next_stream
    /\ UNCHANGED << pc, requests, senders_dropped, updates_sent >>

Next ==
    \/ \E definition \in InitialDefinitions : Start(definition)
    \/ \E definition \in Definitions : SendUpdate(definition)
    \/ DropSenders
    \/ HandleWorkflowRequest
    \/ HandleAllConsumersGone
    \/ \E step_id \in StepIds, order \in StreamOrders :
          \E result \in EndpointResults(step_id) :
             HandleStepFutureResolved(step_id, result, order)

Spec == Init /\ [][Next]_vars

\* The runner with owners that send one update more.
UpdatesNext ==
    \/ Next
    \/ \E definition \in LaterDefinitions : SendUpdateAgain(definition)

UpdatesSpec == Init /\ [][UpdatesNext]_vars

\* The spawned task runs, and it is scheduled for as long as one of its
\* futures is ready: a queued request, or the closed channel, is taken in
\* the end.
\* Nothing makes the endpoint or the channel's owners act.
FairSpec ==
    /\ Spec
    /\ WF_vars(\E definition \in InitialDefinitions : Start(definition))
    /\ WF_vars(HandleWorkflowRequest)
    /\ WF_vars(HandleAllConsumersGone)

(***************************************************************************)
(* Properties of the runner.                                               *)
(***************************************************************************)

\* Every id of list ids has a step in table steps whose status is Active.
EveryStepActive(steps, ids) ==
    \A i \in DOMAIN ids :
       ids[i] \in DOMAIN steps /\ steps[ids[i]].status = "Active"

\* C1: a handler commits the pending list as the active list only when that
\* list is not empty and each of its ids has a step in the table whose
\* status is Active; a handler that commits no swap (a pending step is
\* Created, in Error or missing) leaves the active list of the running
\* actor as it was.
C1_SwapOnlyWhenAllPendingActive ==
    [][ /\ swapped' =>
             /\ Len(pending_steps) > 0
             /\ active_steps' = pending_steps
             /\ EveryStepActive(steps_by_definition_id', pending_steps)
        /\ (~swapped' /\ pc' = "running") => active_steps' = active_steps
        /\ ( /\ pending_steps' # <<>>
             /\ ~EveryStepActive(steps_by_definition_id', pending_steps') )
           => active_steps' = active_steps ]_vars

C1_Witness ==
    /\ swapped
    /\ active_steps = <<1, 3, 2>>
    /\ EveryStepActive(steps_by_definition_id, active_steps)

\* C2: right after a swap the active list is the pending list as it was
\* just before the commit, ids and order, and the pending list is empty.
C2_ActiveIsCommittedPending ==
    [][ swapped' => /\ active_steps' = pending_steps
                    /\ pending_steps' = <<>> ]_vars

C2_Witness ==
    /\ swapped
    /\ active_steps = <<2>>
    /\ pending_steps = <<>>
    /\ updates_sent = 1

\* A step: apply_new_definition ran (at the start of run, or for a request).
DefinitionApplied ==
    \/ pc = "new" /\ pc' = "running"
    \/ pc = "running" /\ requests # <<>> /\ requests' = Tail(requests)

\* C3: the factory is asked for an id only when the table holds no step of
\* that id, and at most once per id while one definition is applied; a step
\* that is in the table when a definition is applied stays there as the
\* same instance.
C3_OneInstancePerStepId ==
    [][ /\ \A i \in DOMAIN factory_calls' :
              /\ factory_calls'[i] \notin DOMAIN steps_by_definition_id
              /\ \A j \in DOMAIN factory_calls' :
                    j # i => factory_calls'[j] # factory_calls'[i]
        /\ DefinitionApplied =>
              \A id \in DOMAIN steps_by_definition_id :
                 /\ id \in DOMAIN steps_by_definition_id'
                 /\ steps_by_definition_id'[id] = steps_by_definition_id[id] ]_vars

\* Definition <<3, 3, 4>> was applied on top of steps 1 and 2, step 1 being
\* Active: step 3 was asked for once.
C3_Witness ==
    /\ pending_steps = <<3, 3, 4>>
    /\ factory_calls = <<3, 4>>
    /\ 1 \in DOMAIN steps_by_definition_id
    /\ steps_by_definition_id[1].status = "Active"

\* C4: the originating step of every stream of the active-streams map is in
\* the active list.
C4_OriginIsActiveStep ==
    \A z \in DOMAIN active_streams : Contains(active_steps, active_streams[z])

\* Step id was given NewIncomingStream for stream z and no
\* StreamDisconnected for it since.
ObservedOpen(id, z) ==
    /\ id \in DOMAIN steps_by_definition_id
    /\ z \in steps_by_definition_id[id].open

\* The originating step of stream z is in Error.
OriginInError(z) ==
    /\ z \in DOMAIN active_streams
    /\ active_streams[z] \in DOMAIN steps_by_definition_id
    /\ steps_by_definition_id[active_streams[z]].status = "Error"

\* C5: a step that was given NewIncomingStream for a stream is in the end
\* given StreamDisconnected for it, unless the runner exits first; stated
\* for the streams whose originating step went to Error.
C5_DisconnectedEventuallyObserved ==
    \A id \in StepIds, z \in StreamIds :
       [](( ObservedOpen(id, z) /\ OriginInError(z) )
             => <>( ~ObservedOpen(id, z) \/ pc = "closed" ))

\* The notifications of sequence media for stream z hold NewIncomingStream
\* and, later, a sequence header.
NewThenHeader(media, z) ==
    \E p, q \in DOMAIN media :
       /\ p < q
       /\ media[p] = NewIncomingStream(z)
       /\ media[q].stream_id = z
       /\ media[q].is_sequence_header

HasMediaOf(media, z) == \E p \in DOMAIN media : media[p].stream_id = z

\* C6: when a swap commits a pending list in which a new step S follows a
\* step A of the old active list, and A's cache holds NewIncomingStream and
\* then a sequence header for a stream Z, the handler has executed S with
\* inputs that hold NewIncomingStream{Z} and later that header, and S was
\* given nothing for Z before that execution.
C6_ReplayToInsertedStep ==
    [][ swapped' =>
          \A i \in 2 .. Len(pending_steps) :
             LET S == pending_steps[i]
                 A == pending_steps[i - 1]
             IN ( /\ ~Contains(active_steps, S)
                  /\ Contains(active_steps, A)
                  /\ A \in DOMAIN cached_step_media' )
                =>
                \A z \in DOMAIN cached_step_media'[A] :
                   NewThenHeader(cached_step_media'[A][z], z) =>
                      /\ z \notin steps_by_definition_id[S].seen
                      /\ \E k \in DOMAIN executed' :
                            /\ executed'[k].step_id = S
                            /\ NewThenHeader(executed'[k].media, z)
                            /\ \A j \in 1 .. (k - 1) :
                                  executed'[j].step_id = S
                                     => ~HasMediaOf(executed'[j].media, z) ]_vars

\* [1, 2] became [1, 3, 2] and step 3 was executed with the replay of step
\* 1's cache for stream 1.
C6_Witness ==
    /\ swapped
    /\ active_steps = <<1, 3, 2>>
    /\ \E k \in DOMAIN executed :
          /\ executed[k].step_id = 3
          /\ NewThenHeader(executed[k].media, 1)

\* C7: when the active list is [A, B], a stream Z originates at A, and the
\* pending list [B] is committed, then after the handler A is neither in the
\* step table nor in the active list, B was executed with
\* StreamDisconnected{Z} among its inputs, and Z is not in active-streams.
C7_RemovedSourceDisconnectsStreams ==
    [][ \A A, B \in StepIds : \A z \in DOMAIN active_streams :
          ( /\ swapped'
            /\ A # B
            /\ active_steps = <<A, B>>
            /\ pending_steps = <<B>>
            /\ active_streams[z] = A )
          =>
          /\ A \notin DOMAIN steps_by_definition_id'
          /\ ~Contains(active_steps', A)
          /\ z \notin DOMAIN active_streams'
          /\ \E k \in DOMAIN executed' :
                /\ executed'[k].step_id = B
                /\ Contains(executed'[k].media, StreamDisconnected(z)) ]_vars

\* [1, 2] became [2] while stream 1 was live: the removal pass executed step
\* 2 with the disconnection.
C7_Witness ==
    /\ swapped
    /\ active_steps = <<2>>
    /\ 1 \notin DOMAIN steps_by_definition_id
    /\ active_streams = EmptyMap
    /\ \E k \in DOMAIN executed :
          /\ executed[k].step_id = 2
          /\ executed[k].media = << StreamDisconnected(1) >>

\* C8: once definition D was applied and every step of D is Active, the
\* active list becomes D, unless a later request arrives, a step of D leaves
\* Active, or the runner exits.
C8_DefinitionBecomesActive ==
    \A D \in Definitions :
       []( ( /\ pc = "running"
             /\ pending_steps = D
             /\ requests = <<>>
             /\ EveryStepActive(steps_by_definition_id, D) )
           => <>( \/ active_steps = D
                  \/ requests # <<>>
                  \/ pc = "closed"
                  \/ ~EveryStepActive(steps_by_definition_id, D) ) )

\* C9: after a swap the step table holds the steps of the active list and no
\* others, and so does the media cache.
C9_TableIsActiveListAfterSwap ==
    [][ swapped' =>
          /\ DOMAIN steps_by_definition_id' = Range(active_steps')
          /\ DOMAIN cached_step_media' \subseteq Range(active_steps') ]_vars

\* C10: once every sender is dropped, the loop of Actor::run is left.
C10_RunnerExitsWhenSendersDropped ==
    senders_dropped ~> (pc = "closed")

\* The loop was left with step futures still unresolved.
C10_Witness ==
    /\ pc = "closed"
    /\ senders_dropped
    /\ dropped_futures > 0
    /\ updates_sent > 0

\* C23: in every execution of an RTMP watch step, whatever its status and
\* whatever future result it is given in the same call, the media the step
\* outputs is the sequence of media notifications of its inputs, in order.
C23_WatchStepForwardsAllMedia ==
    [][ \A k \in DOMAIN executed' :
          StepKind(executed'[k].step_id) = "rtmp_watch"
             => executed'[k].output = executed'[k].media ]_vars

\* A step: the handler of UpdateDefinition(D) ran for the request at the
\* head of the queue.
UpdateDefinitionHandled(D) ==
    /\ pc = "running"
    /\ requests # <<>>
    /\ Head(requests) = D
    /\ requests' = Tail(requests)

\* C25: when UpdateDefinition(D) is handled and every step of D is in the
\* table and Active, the active list is D as soon as the request has been
\* handled.
C25_SwapAtEndOfApply ==
    [][ \A D \in Definitions :
          ( /\ UpdateDefinitionHandled(D)
            /\ EveryStepActive(steps_by_definition_id, D) )
          => active_steps' = D ]_vars

\* C26: when the swap's replay pass executes a newly inserted step S of the
\* pending list and S outputs media from the replayed cache, every step
\* that follows S in the pending list is executed afterwards by the same
\* handler with that output as its media input.
C26_ReplayOutputPropagatedDownstream ==
    [][ swapped' =>
          \A i \in 2 .. Len(pending_steps) :
             LET S == pending_steps[i] IN
             ~Contains(active_steps, S) =>
                \A k \in DOMAIN executed' :
                   ( /\ executed'[k].step_id = S
                     /\ executed'[k].media # <<>>
                     /\ executed'[k].output # <<>> )
                   =>
                   \A j \in (i + 1) .. Len(pending_steps) :
                      \E l \in DOMAIN executed' :
                         /\ l > k
                         /\ executed'[l].step_id = pending_steps[j]
                         /\ executed'[l].media = executed'[k].output ]_vars

\* The executions of step id, in the log of a handler's executions, whose
\* media input holds notification m.
ExecutionsWith(log, id, m) ==
    { k \in DOMAIN log : log[k].step_id = id /\ Contains(log[k].media, m) }

\* C27: when a swap commits, for every step R of the old active list that
\* the pending list omits, R is no longer in the step table nor in the media
\* cache, and for every stream whose originating step was R when the swap
\* began: the stream is no longer in the active-streams map, every surviving
\* step to the right of R in the old active list was executed exactly once
\* with StreamDisconnected of the stream, as its only input, and no
\* surviving step to the left of R was executed with it.
C27_RemovalDisconnectsDownstreamOnly ==
    [][ swapped' =>
          \A p \in DOMAIN active_steps :
             LET R == active_steps[p] IN
             ~Contains(pending_steps, R) =>
                /\ R \notin DOMAIN steps_by_definition_id'
                /\ R \notin DOMAIN cached_step_media'
                /\ \A z \in DOMAIN removal_streams' :
                      removal_streams'[z] = R =>
                         /\ z \notin DOMAIN active_streams'
                         /\ \A q \in DOMAIN active_steps :
                               Contains(pending_steps, active_steps[q]) =>
                                  LET with == ExecutionsWith(executed', active_steps[q],
                                                             StreamDisconnected(z))
                                  IN IF q > p
                                     THEN /\ Cardinality(with) = 1
                                          /\ \A k \in with :
                                                executed'[k].media
                                                    = << StreamDisconnected(z) >>
                                     ELSE with = {} ]_vars

\* [2, 1, 3] became [2, 3] while stream 1, of step 1, was live: step 3 was
\* executed with the disconnection and step 2 was not.
C27_Witness ==
    /\ swapped
    /\ active_steps = <<2, 3>>
    /\ 1 \in DOMAIN removal_streams /\ removal_streams[1] = 1
    /\ Cardinality(ExecutionsWith(executed, 3, StreamDisconnected(1))) = 1
    /\ ExecutionsWith(executed, 2, StreamDisconnected(1)) = {}
    /\ active_streams = EmptyMap

\* A step: apply_new_definition ran and returned early, the factory having
\* failed for the last id it was asked for.
FactoryFailedInApply ==
    /\ DefinitionApplied
    /\ factory_calls' # <<>>
    /\ GenerateFails(factory_calls'[Len(factory_calls')])

\* The pending list holds an id the step table has no step for.
AwaitingMissingStep ==
    \E i \in DOMAIN pending_steps : pending_steps[i] \notin DOMAIN steps_by_definition_id

\* The failed apply leaves the failed id last in the pending list and out of
\* the step table, and leaves the active list, the table entries of the
\* active steps and the active-streams map as they were.
FailedApplyReturnsEarly ==
    FactoryFailedInApply =>
       LET failed == factory_calls'[Len(factory_calls')]
       IN /\ pending_steps' # <<>>
          /\ pending_steps'[Len(pending_steps')] = failed
          /\ failed \notin DOMAIN steps_by_definition_id'
          /\ active_steps' = active_steps
          /\ active_streams' = active_streams
          /\ \A i \in DOMAIN active_steps :
                active_steps[i] \in DOMAIN steps_by_definition_id =>
                   /\ active_steps[i] \in DOMAIN steps_by_definition_id'
                   /\ steps_by_definition_id'[active_steps[i]]
                         = steps_by_definition_id[active_steps[i]]

\* A step of the running actor that applies no definition, taken while the
\* pending list awaits a step the table does not hold.
StepWhileAwaitingMissingStep ==
    /\ AwaitingMissingStep
    /\ ~DefinitionApplied
    /\ pc' = "running"

\* C28 as stated: a failure of the factory makes apply return early with
\* the failed id in the pending list and no step for it in the table; from
\* then on, until a definition is applied, no swap commits and the active
\* list, the table entries of the active steps and the active-streams map
\* stay as they were.
C28_NothingChangesAfterFailedApply ==
    [][ /\ FailedApplyReturnsEarly
        /\ StepWhileAwaitingMissingStep =>
              /\ ~swapped'
              /\ AwaitingMissingStep'
              /\ active_steps' = active_steps
              /\ active_streams' = active_streams
              /\ \A i \in DOMAIN active_steps :
                    active_steps[i] \in DOMAIN steps_by_definition_id =>
                       /\ active_steps[i] \in DOMAIN steps_by_definition_id'
                       /\ steps_by_definition_id'[active_steps[i]]
                             = steps_by_definition_id[active_steps[i]] ]_vars

\* C28 amended: a failure of the factory makes apply return early with the
\* failed id in the pending list and no step for it in the table, the active
\* list, the table entries of the active steps and the active-streams map
\* being left as they were; from then on, until a definition is applied, no
\* swap commits, the active list stays as it was and every active step
\* keeps its entry in the step table.
C28_NoSwapAfterFailedApply ==
    [][ /\ FailedApplyReturnsEarly
        /\ StepWhileAwaitingMissingStep =>
              /\ ~swapped'
              /\ AwaitingMissingStep'
              /\ active_steps' = active_steps
              /\ \A i \in DOMAIN active_steps :
                    active_steps[i] \in DOMAIN steps_by_definition_id =>
                       active_steps[i] \in DOMAIN steps_by_definition_id' ]_vars

\* [3, 3, 4] was applied on top of the active [1, 2]: step 3 is Active, step
\* 4 could not be made, and a step future was handled since.
C28_Witness ==
    /\ pending_steps = <<3, 3, 4>>
    /\ active_steps = <<1, 2>>
    /\ 4 \notin DOMAIN steps_by_definition_id
    /\ 3 \in DOMAIN steps_by_definition_id
    /\ steps_by_definition_id[3].status = "Active"
    /\ executed # <<>>
    /\ ~swapped

\* The notifications a cache may hold: NewIncomingStream, and Video and
\* Audio that are sequence headers.
Cacheable(m) ==
    \/ m.type = "NewIncomingStream"
    \/ m.type \in {"Video", "Audio"} /\ m.is_sequence_header

\* The position of the last StreamDisconnected of a sequence of
\* notifications, 0 when it holds none.
LastDisconnection(media) ==
    IF \E i \in DOMAIN media : media[i].type = "StreamDisconnected"
    THEN CHOOSE i \in DOMAIN media :
            /\ media[i].type = "StreamDisconnected"
            /\ \A j \in DOMAIN media : j > i => media[j].type # "StreamDisconnected"
    ELSE 0

\* What the cache of a step holds for stream z once the step has output the
\* notifications output, its cache having been cache: the cacheable
\* notifications the step output for z since its last StreamDisconnected
\* for z, in the order of their output.
CacheableSinceDisconnection(cache, output, z) ==
    LET for_z == SelectSeq(output, LAMBDA m : m.stream_id = z)
        last == LastDisconnection(for_z)
    IN (IF last = 0 /\ z \in DOMAIN cache THEN cache[z] ELSE <<>>)
          \o SelectSeq(SubSeq(for_z, last + 1, Len(for_z)), Cacheable)

\* The executions of step id in the log of a handler's executions.
ExecutionsOf(log, id) == { k \in DOMAIN log : log[k].step_id = id }

\* C29: the cache of every step holds, per stream id, only NewIncomingStream
\* and sequence headers of that stream; every execution of a step leaves in
\* its cache, per stream, the cacheable notifications the step has output
\* for the stream since its last StreamDisconnected for it, in the order of
\* their output, and no entry when there is none; and the cache of a step
\* changes only by the step's executions, while the step is kept.
C29_CacheHoldsHeadersInOutputOrder ==
    [][ /\ \A id \in DOMAIN cached_step_media' :
              \A z \in DOMAIN cached_step_media'[id] :
                 /\ cached_step_media'[id][z] # <<>>
                 /\ \A i \in DOMAIN cached_step_media'[id][z] :
                       /\ Cacheable(cached_step_media'[id][z][i])
                       /\ cached_step_media'[id][z][i].stream_id = z
        /\ \A k \in DOMAIN executed' :
              LET e == executed'[k]
                  earlier == { j \in ExecutionsOf(executed', e.step_id) : j < k }
              IN /\ \A z \in StreamIds :
                       LET expected ==
                               CacheableSinceDisconnection(e.cache_before, e.output, z)
                       IN IF expected = <<>>
                          THEN z \notin DOMAIN e.cache_after
                          ELSE /\ z \in DOMAIN e.cache_after
                               /\ e.cache_after[z] = expected
                 /\ DOMAIN e.cache_after \subseteq StreamIds
                 /\ e.cache_before =
                       IF earlier # {}
                       THEN executed'[CHOOSE j \in earlier :
                                         \A i \in earlier : i <= j].cache_after
                       ELSE IF e.step_id \in DOMAIN cached_step_media
                       THEN cached_step_media[e.step_id]
                       ELSE EmptyMap
        /\ \A id \in DOMAIN cached_step_media' :
              LET of_id == ExecutionsOf(executed', id)
              IN IF of_id = {}
                 THEN /\ id \in DOMAIN cached_step_media
                      /\ cached_step_media'[id] = cached_step_media[id]
                 ELSE cached_step_media'[id] =
                         executed'[CHOOSE j \in of_id :
                                      \A i \in of_id : i <= j].cache_after ]_vars

\* A step whose cache holds NewIncomingStream and an audio sequence header
\* of stream 1 was executed and output Metadata of the stream, which its
\* cache does not hold, while the cache of another step has no entry for
\* the stream.
C29_Witness ==
    \E k \in DOMAIN executed :
       /\ executed[k].output = << Media(1, "Metadata", FALSE) >>
       /\ 1 \in DOMAIN executed[k].cache_after
       /\ executed[k].cache_after[1] =
             << NewIncomingStream(1), Media(1, "Audio", TRUE) >>
       /\ \E id \in DOMAIN cached_step_media : 1 \notin DOMAIN cached_step_media[id]

\* The NewIncomingStream and StreamDisconnected notifications of stream z
\* in a step's output, in the order of their output.
StreamEvents(output, z) ==
    SelectSeq(output, LAMBDA m : /\ m.stream_id = z
                                 /\ m.type \in {"NewIncomingStream",
                                                 "StreamDisconnected"})

\* C30: for every execution of a step and every stream id, the
\* active-streams map the execution leaves differs from the one it found
\* only as follows: a stream registered to another step keeps its
\* originating step whatever the step outputs; otherwise, when the step
\* outputs no NewIncomingStream or StreamDisconnected for the stream, the
\* stream's entry is as it was, when the last of them is a NewIncomingStream
\* the stream is registered with the step as originating step, and when it
\* is a StreamDisconnected the stream has no entry.  The first execution of
\* a handler finds the map as the handler found it.
C30_StreamOriginTracking ==
    [][ /\ executed' # <<>> /\ executed' # executed
              => executed'[1].streams_before = active_streams
        /\ \A k \in DOMAIN executed' :
              LET e == executed'[k] IN
              \A z \in StreamIds :
                 LET events == StreamEvents(e.output, z)
                     unchanged ==
                         /\ (z \in DOMAIN e.streams_after) = (z \in DOMAIN e.streams_before)
                         /\ z \in DOMAIN e.streams_before
                               => e.streams_after[z] = e.streams_before[z]
                 IN IF /\ z \in DOMAIN e.streams_before
                       /\ e.streams_before[z] # e.step_id
                    THEN unchanged
                    ELSE IF events = <<>>
                    THEN unchanged
                    ELSE IF events[Len(events)].type = "NewIncomingStream"
                    THEN /\ z \in DOMAIN e.streams_after
                         /\ e.streams_after[z] = e.step_id
                    ELSE z \notin DOMAIN e.streams_after ]_vars

\* A step was executed and output NewIncomingStream of stream 1 while the
\* stream was registered to another step, and the map was left as it was.
C30_Witness ==
    \E k \in DOMAIN executed :
       /\ executed[k].output = << NewIncomingStream(1) >>
       /\ 1 \in DOMAIN executed[k].streams_before
       /\ executed[k].streams_before[1] # executed[k].step_id
       /\ executed[k].streams_after = executed[k].streams_before

\* C31: when a step future resolves for the step at position i of the
\* active list, the handler first executes the active steps at positions
\* i, i+1, ..., end, in that order, and executes nothing else unless it
\* commits a swap; the step at i is given the future result and no media,
\* every later step is given the media output by the step executed right
\* before it and no future result; no execution of the handler but the
\* first is given a future result, and the handler takes no request.
C31_TraversalFromResolvedStep ==
    [][ resolved' # None =>
          \A i \in DOMAIN active_steps :
             ( /\ active_steps[i] = resolved'[1].step_id
               /\ \A j \in 1 .. (i - 1) : active_steps[j] # resolved'[1].step_id )
             => LET n == Len(active_steps) - i + 1 IN
                /\ Len(executed') >= n
                /\ ~swapped' => Len(executed') = n
                /\ \A k \in 1 .. n : executed'[k].step_id = active_steps[i + k - 1]
                /\ executed'[1].notifications = << resolved'[1].result >>
                /\ executed'[1].media = <<>>
                /\ \A k \in 2 .. n :
                      executed'[k].media = executed'[k - 1].output
                /\ \A k \in 2 .. Len(executed') : executed'[k].notifications = <<>>
                /\ requests' = requests ]_vars

\* A future of step 1, first of three active steps, resolved: the three
\* steps were executed, and the third was given the media the second had
\* output.
C31_Witness ==
    /\ resolved # None
    /\ resolved[1].step_id = 1
    /\ ~swapped
    /\ Len(active_steps) = 3 /\ active_steps[1] = 1
    /\ Len(executed) = 3
    /\ executed[3].media # <<>>
    /\ executed[3].media = executed[2].output
    /\ executed[2].media = executed[1].output

\* A step: the handler took a step future of a step the table does not
\* hold.
OrphanFutureResolved ==
    /\ resolved' # None
    /\ resolved'[1].step_id \notin DOMAIN steps_by_definition_id

\* Every execution that is given a future result is an execution of the
\* step whose future the handler took, and is given that result.
OwnResultOnly(log, taken) ==
    \A k \in DOMAIN log :
       log[k].notifications # <<>>
          => /\ taken # None
             /\ log[k].step_id = taken[1].step_id
             /\ log[k].notifications = << taken[1].result >>

\* C32: the handler of a step future whose step is no longer in the step
\* table executes no step, registers no future (the resolved one is gone),
\* leaves the step table, the media caches and the active-streams map as
\* they were and leaves the runner running; and no execution of any handler
\* is given a future result other than the one its handler took for that
\* step.
C32_OrphanFutureTolerated ==
    [][ /\ OrphanFutureResolved =>
              /\ executed' = <<>>
              /\ futures' = [futures EXCEPT ![resolved'[1].step_id] = @ - 1]
              /\ steps_by_definition_id' = steps_by_definition_id
              /\ cached_step_media' = cached_step_media
              /\ active_streams' = active_streams
              /\ pc' = "running"
        /\ OwnResultOnly(executed', resolved') ]_vars

(***************************************************************************)
(* The reactor's handlers, on a record r of the actor's fields: manager,   *)
(* cache, channels, futures, and the history of the handler so far: sent,  *)
(* its messages, calls, its calls of the executor, and scheduled, its      *)
(* update timers.  A send on a channel whose receiver is dropped returns   *)
(* Err, which every send of the reactor ignores: ok tells the two apart.   *)
(***************************************************************************)
\* A message on the channel id of a manager or of a response: StopWorkflow
\* with a name, UpsertWorkflow with a definition (and its name), or
\* ReactorWorkflowUpdate with an optional name.
Message(to, id, op, name, definition) ==
    [ to |-> to, id |-> id, op |-> op, name |-> name, definition |-> definition,
      ok |-> IF to = "manager"
             THEN id \notin closed_managers
             ELSE id \notin closed_response_channels ]

StopWorkflow(id, name) == Message("manager", id, "StopWorkflow", Some(name), None)

UpsertWorkflow(id, definition) ==
    Message("manager", id, "UpsertWorkflow", Some(definition.name),
            Some(definition))

ReactorWorkflowUpdate(id, workflow_name) ==
    Message("response", id, "ReactorWorkflowUpdate", workflow_name, None)

Send(r, message) == [ r EXCEPT !.sent = Append(@, message) ]

\* No workflow ever stopped.
StopByNoManager(r, name) == r

\* The timer's expiry asking the executor whatever the cache holds.
UpdateStreamNameRequestedAlways(r, stream_name) ==
    [ r EXCEPT !.futures.executor[stream_name] = @ + 1,
               !.calls = Append(@, stream_name) ]

\* if let Some(manager) = &self.workflow_manager { manager.send(..) }, for
\* the two operations the reactor asks of a manager.
StopByManager(r, name) ==
    IF r.manager = 0 THEN r ELSE Send(r, StopWorkflow(r.manager, name))

UpsertByManager(r, definition) ==
    IF r.manager = 0 THEN r ELSE Send(r, UpsertWorkflow(r.manager, definition))

\* for channel in channels { channel.send(ReactorWorkflowUpdate {..}) }
RECURSIVE SendUpdates(_, _, _)
SendUpdates(r, channels, workflow_name) ==
    IF channels = << >> THEN r
    ELSE SendUpdates(
             Send(r, ReactorWorkflowUpdate(Head(channels), workflow_name)),
             Tail(channels), workflow_name)

\* self.executor.get_workflow(stream_name) pushed as wait_for_executor_response.
GetWorkflow(r, stream_name) ==
    [ r EXCEPT !.futures.executor[stream_name] = @ + 1,
               !.calls = Append(@, stream_name) ]

ChannelsOf(r, stream_name) ==
    IF stream_name \in DOMAIN r.channels THEN r.channels[stream_name] ELSE << >>

\* The request answered from the cache and the executor asked all the same.
HandleRequestAskingAlways(r, stream_name, response_channel) ==
    LET r1 == [ r EXCEPT !.channels =
                  MapPut(@, stream_name,
                         Append(ChannelsOf(r, stream_name), response_channel)) ]
        r2 == IF stream_name \in DOMAIN r1.cache
              THEN Send(r1, ReactorWorkflowUpdate(
                                response_channel, Some(r1.cache[stream_name].name)))
              ELSE r1
    IN [ GetWorkflow(r2, stream_name) EXCEPT !.futures.response_closed =
           @ \cup { << response_channel, stream_name >> } ]

\* Actor::handle_request, CreateWorkflowNameForStream.
handle_request(r, stream_name, response_channel) ==
    LET r1 == [ r EXCEPT !.channels =
                  MapPut(@, stream_name,
                         Append(ChannelsOf(r, stream_name), response_channel)) ]
        r2 == IF stream_name \in DOMAIN r1.cache
              THEN Send(r1, ReactorWorkflowUpdate(
                                response_channel, Some(r1.cache[stream_name].name)))
              ELSE GetWorkflow(r1, stream_name)
    IN [ r2 EXCEPT !.futures.response_closed =
           @ \cup { << response_channel, stream_name >> } ]

\* The old workflow kept running when the executor names another one.
StopsReplacedWorkflowNever(cached_name, workflow_name) == FALSE

\* if cache.definition.name != workflow_name
StopsReplacedWorkflow(cached_name, workflow_name) == cached_name # workflow_name

\* The stop naming the workflow that replaces the cached one.
StoppedNameOfNew(cached, workflow) == workflow.name

\* StopWorkflow { name: cache.definition.name.clone() }
StoppedName(cached, workflow) == cached.name

\* A timer whatever the interval.
SchedulesUpdateAlways(interval) == TRUE

\* if !self.update_interval.is_zero()
SchedulesUpdate(interval) == interval # 0

\* Actor::handle_executor_response.
handle_executor_response(r, stream_name, workflow) ==
    IF workflow # None
    THEN LET w == workflow[1]
             r1 == IF stream_name \in DOMAIN r.cache
                   THEN LET cached == r.cache[stream_name]
                            rs == IF StopsReplacedWorkflow(cached.name, w.name)
                                  THEN StopByManager(r, StoppedName(cached, w))
                                  ELSE r
                        IN [ rs EXCEPT !.cache[stream_name] = w ]
                   ELSE [ r EXCEPT !.cache = MapPut(@, stream_name, w) ]
             r2 == UpsertByManager(r1, w)
             r3 == SendUpdates(r2, ChannelsOf(r2, stream_name), Some(w.name))
         IN IF SchedulesUpdate(update_interval)
            THEN [ r3 EXCEPT !.futures.timers[stream_name] = @ + 1,
                             !.scheduled = Append(@, stream_name) ]
            ELSE r3
    ELSE LET r1 == IF stream_name \in DOMAIN r.channels
                   THEN SendUpdates(
                            [ r EXCEPT !.channels = MapDel(@, stream_name) ],
                            r.channels[stream_name], None)
                   ELSE r
         IN IF stream_name \in DOMAIN r1.cache
            THEN StopByManager(
                     [ r1 EXCEPT !.cache = MapDel(@, stream_name) ],
                     r1.cache[stream_name].name)
            ELSE r1

\* FutureResult::UpdateStreamNameRequested in Actor::run.
update_stream_name_requested(r, stream_name) ==
    IF stream_name \in DOMAIN r.cache THEN GetWorkflow(r, stream_name) ELSE r

\* The orders in which the HashMap of cached workflows may be iterated.
StreamNameOrders ==
    { o \in [ 1 .. Cardinality(StreamNames) -> StreamNames ] :
        \A i, j \in DOMAIN o : i # j => o[i] # o[j] }

\* A registration that upserts nothing.
CatchUpNothing(r, channel, order) == r

\* for workflow in self.cached_workflows_for_stream_name.values() { .. }
RECURSIVE CatchUp(_, _, _)
CatchUp(r, channel, order) ==
    IF order = << >> THEN r
    ELSE CatchUp(
             IF Head(order) \in DOMAIN r.cache
             THEN Send(r, UpsertWorkflow(channel, r.cache[Head(order)]))
             ELSE r,
             channel, Tail(order))

\* Actor::handle_workflow_manager_event, WorkflowManagerRegistered.
handle_workflow_manager_event(r, channel, order) ==
    LET r1 == [ r EXCEPT !.futures.manager_gone = @ \cup { channel } ]
        r2 == CatchUp(r1, channel, order)
    IN [ r2 EXCEPT !.manager = channel ]

\* The closed channels staying in the list.
RetainAll(channels) == channels

\* if channels[x].is_closed() { channels.remove(x); }
RetainOpen(channels) ==
    SelectSeq(channels, LAMBDA c : c \notin closed_response_channels)

\* Actor::handle_response_channel_closed.
handle_response_channel_closed(r, stream_name) ==
    IF stream_name \in DOMAIN r.channels
    THEN LET channels == RetainOpen(r.channels[stream_name])
         IN IF channels = << >>
            THEN LET r1 == [ r EXCEPT !.channels = MapDel(@, stream_name) ]
                 IN IF stream_name \in DOMAIN r1.cache
                    THEN StopByManager(
                             [ r1 EXCEPT !.cache = MapDel(@, stream_name) ],
                             r1.cache[stream_name].name)
                    ELSE r1
            ELSE [ r EXCEPT !.channels[stream_name] = channels ]
    ELSE r

(***************************************************************************)
(* The reactor's state machine: one action per arm of the match in         *)
(* Actor::run, and one per act of its environment.                         *)
(***************************************************************************)

\* The actor's fields as a handler finds them.
Reactor ==
    [ manager |-> workflow_manager, cache |-> cached_workflows_for_stream_name,
      channels |-> stream_response_channels, futures |-> reactor_futures,
      sent |-> << >>, calls |-> << >>, scheduled |-> << >> ]

\* The last update each response channel was delivered, after the sends.
RECURSIVE LastUpdateAfter(_, _)
LastUpdateAfter(updates, sends) ==
    IF sends = << >> THEN updates
    ELSE LET m == Head(sends)
         IN LastUpdateAfter(
                IF m.op = "ReactorWorkflowUpdate" /\ m.ok
                THEN MapPut(updates, m.id, m.name) ELSE updates,
                Tail(sends))

\* The channels that are delivered, by the sends, the update they were
\* delivered last.
RepeatedUpdates(updates, sends) ==
    { sends[i].id : i \in { j \in DOMAIN sends :
                              /\ sends[j].op = "ReactorWorkflowUpdate"
                              /\ sends[j].ok
                              /\ sends[j].id \in DOMAIN updates
                              /\ updates[sends[j].id] = sends[j].name } }

\* The lookups in flight that were so when their stream's cache entry was
\* dropped: all those in flight at a drop, and of those counted before as
\* many as are still in flight.
CancelledAfter(r) ==
    [ n \in StreamNames |->
        IF n \in DOMAIN cached_workflows_for_stream_name /\ n \notin DOMAIN r.cache
        THEN r.futures.executor[n]
        ELSE IF cancelled[n] < r.futures.executor[n]
             THEN cancelled[n] ELSE r.futures.executor[n] ]

CountUpserts(sends) ==
    Cardinality({ i \in DOMAIN sends : sends[i].op = "UpsertWorkflow" })

\* The actor's fields as the handler of result leaves them.
ReactorBecomes(r, result) ==
    /\ workflow_manager' = r.manager
    /\ cached_workflows_for_stream_name' = r.cache
    /\ stream_response_channels' = r.channels
    /\ reactor_futures' = r.futures
    /\ handled' = result
    /\ before' = ReactorFields(workflow_manager, cached_workflows_for_stream_name,
                               stream_response_channels)
    /\ sent' = r.sent
    /\ called' = r.calls
    /\ scheduled' = r.scheduled
    /\ stale' = /\ result.result = "ExecutorResponseReceived"
                /\ cancelled[result.stream_name] > 0
                /\ cancelled[result.stream_name]
                       = reactor_futures.executor[result.stream_name]
    /\ repeated_updates' = RepeatedUpdates(last_update, r.sent)
    /\ cancelled' = CancelledAfter(r)
    /\ last_update' = LastUpdateAfter(last_update, r.sent)
    /\ upserts_sent' = upserts_sent + CountUpserts(r.sent)
    /\ UNCHANGED << reactor_pc, update_interval >>
    /\ UNCHANGED << vars, config_vars, receiver_vars, sender_vars >>

\* break: Actor::run returns and drops the actor with its futures.
ReactorBreaks(result) ==
    /\ reactor_pc' = "closed"
    /\ workflow_manager' = 0
    /\ cached_workflows_for_stream_name' = EmptyMap
    /\ stream_response_channels' = EmptyMap
    /\ reactor_futures' = NoReactorFutures
    /\ handled' = result
    /\ before' = ReactorFields(workflow_manager, cached_workflows_for_stream_name,
                               stream_response_channels)
    /\ sent' = << >>
    /\ called' = << >>
    /\ scheduled' = << >>
    /\ stale' = FALSE
    /\ repeated_updates' = {}
    /\ cancelled' = [ n \in StreamNames |-> 0 ]
    /\ UNCHANGED << update_interval, reactor_requests, request_senders_dropped,
                    hub_events, hub_dropped, closed_response_channels,
                    closed_managers, requests_sent, registrations_sent, polls,
                    last_update, upserts_sent, distinct_results >>
    /\ UNCHANGED << vars, config_vars, receiver_vars, sender_vars >>

\* A step of the environment: the actor is left alone.
NoReactorHandlerRan ==
    /\ handled' = NoResult
    /\ before' = NoFields
    /\ sent' = << >>
    /\ called' = << >>
    /\ scheduled' = << >>
    /\ stale' = FALSE
    /\ repeated_updates' = {}
    /\ UNCHANGED cancelled
    /\ UNCHANGED << reactor_pc, update_interval, workflow_manager,
                    cached_workflows_for_stream_name, stream_response_channels,
                    reactor_futures, last_update, upserts_sent, distinct_results >>
    /\ UNCHANGED << vars, config_vars, receiver_vars, sender_vars >>

\* start_reactor: the actor is spawned and the request sender handed out.
StartReactor(interval) ==
    /\ reactor_pc = "new"
    /\ reactor_pc' = "running"
    /\ update_interval' = interval
    /\ UNCHANGED << workflow_manager, cached_workflows_for_stream_name,
                    stream_response_channels, reactor_futures, reactor_requests,
                    request_senders_dropped, hub_events, hub_dropped,
                    closed_response_channels, closed_managers, requests_sent,
                    registrations_sent, polls, handled, before, sent, called,
                    scheduled, stale, repeated_updates, cancelled, last_update,
                    upserts_sent, distinct_results >>
    /\ UNCHANGED << vars, config_vars, receiver_vars, sender_vars >>

\* The channels the environment has dropped its end of so far.
Drops ==
    Cardinality(closed_managers)
        + (IF hub_dropped THEN 1 ELSE 0)
        + (IF request_senders_dropped THEN 1 ELSE 0)

\* A consumer sends CreateWorkflowNameForStream with a fresh response channel.
\* Stream names are interchangeable: the first one asked for is "live/1".
SendRequest(stream_name) ==
    /\ reactor_pc = "running"
    /\ ~request_senders_dropped
    /\ requests_sent < MaxRequests
    /\ (stream_name # "live/1" => requests_sent > 0)
    /\ requests_sent' = requests_sent + 1
    /\ reactor_requests' =
           Append(reactor_requests,
                  [ stream_name |-> stream_name,
                    response_channel |-> requests_sent + 1 ])
    /\ NoReactorHandlerRan
    /\ UNCHANGED << request_senders_dropped, hub_events, hub_dropped,
                    closed_response_channels, closed_managers,
                    registrations_sent, polls >>

\* The last sender of the request channel is dropped.
DropRequestSenders ==
    /\ reactor_pc = "running"
    /\ Drops < MaxDrops
    /\ ~request_senders_dropped
    /\ request_senders_dropped' = TRUE
    /\ NoReactorHandlerRan
    /\ UNCHANGED << reactor_requests, hub_events, hub_dropped,
                    closed_response_channels, closed_managers, requests_sent,
                    registrations_sent, polls >>

\* The event hub announces a workflow manager's channel.  Managers are
\* interchangeable: the first one announced is manager 1.
AnnounceManager(channel) ==
    /\ reactor_pc = "running"
    /\ ~hub_dropped
    /\ channel \notin closed_managers
    /\ registrations_sent < MaxRegistrations
    /\ (channel # 1 => registrations_sent > 0)
    /\ registrations_sent' = registrations_sent + 1
    /\ hub_events' = Append(hub_events, channel)
    /\ NoReactorHandlerRan
    /\ UNCHANGED << reactor_requests, request_senders_dropped, hub_dropped,
                    closed_response_channels, closed_managers, requests_sent,
                    polls >>

\* The event hub drops the sender of the subscription.
DropHub ==
    /\ reactor_pc = "running"
    /\ Drops < MaxDrops
    /\ ~hub_dropped
    /\ hub_dropped' = TRUE
    /\ NoReactorHandlerRan
    /\ UNCHANGED << reactor_requests, request_senders_dropped, hub_events,
                    closed_response_channels, closed_managers, requests_sent,
                    registrations_sent, polls >>

\* A consumer drops the receiver of its response channel.
CloseResponseChannel(channel) ==
    /\ reactor_pc = "running"
    /\ channel <= requests_sent
    /\ channel \notin closed_response_channels
    /\ closed_response_channels' = closed_response_channels \cup { channel }
    /\ NoReactorHandlerRan
    /\ UNCHANGED << reactor_requests, request_senders_dropped, hub_events,
                    hub_dropped, closed_managers, requests_sent,
                    registrations_sent, polls >>

\* An announced workflow manager drops the receiver of its channel.
CloseManager(channel) ==
    /\ reactor_pc = "running"
    /\ Drops < MaxDrops
    /\ channel \in reactor_futures.manager_gone \cup Range(hub_events)
    /\ channel \notin closed_managers
    /\ closed_managers' = closed_managers \cup { channel }
    /\ NoReactorHandlerRan
    /\ UNCHANGED << reactor_requests, request_senders_dropped, hub_events,
                    hub_dropped, closed_response_channels, requests_sent,
                    registrations_sent, polls >>

\* wait_for_request yields a request: RequestReceived.
HandleRequestReceived ==
    /\ reactor_pc = "running"
    /\ reactor_requests # << >>
    /\ reactor_requests' = Tail(reactor_requests)
    /\ LET request == Head(reactor_requests)
       IN ReactorBecomes(
              handle_request(Reactor, request.stream_name,
                             request.response_channel),
              ReactorResult("RequestReceived", request.stream_name, None,
                            request.response_channel))
    /\ UNCHANGED << request_senders_dropped, hub_events, hub_dropped,
                    closed_response_channels, closed_managers, requests_sent,
                    registrations_sent, polls, distinct_results >>

\* wait_for_request yields None: AllRequestConsumersGone.
HandleAllRequestConsumersGone ==
    /\ reactor_pc = "running"
    /\ reactor_requests = << >>
    /\ request_senders_dropped
    /\ ReactorBreaks(ReactorResult("AllRequestConsumersGone", "", None, 0))

\* wait_for_workflow_manager_event yields an event: WorkflowManagerEventReceived.
HandleWorkflowManagerEventReceived(order) ==
    /\ reactor_pc = "running"
    /\ hub_events # << >>
    /\ hub_events' = Tail(hub_events)
    /\ Cardinality(DOMAIN cached_workflows_for_stream_name) < 2
           => order = CHOOSE o \in StreamNameOrders : TRUE
    /\ ReactorBecomes(
           handle_workflow_manager_event(Reactor, Head(hub_events), order),
           ReactorResult("WorkflowManagerEventReceived", "", None,
                         Head(hub_events)))
    /\ UNCHANGED << reactor_requests, request_senders_dropped, hub_dropped,
                    closed_response_channels, closed_managers, requests_sent,
                    registrations_sent, polls, distinct_results >>

\* wait_for_workflow_manager_event yields None: EventHubGone.
HandleEventHubGone ==
    /\ reactor_pc = "running"
    /\ hub_events = << >>
    /\ hub_dropped
    /\ ReactorBreaks(ReactorResult("EventHubGone", "", None, 0))

\* A notify_workflow_manager_gone future resolves: WorkflowManagerGone.
HandleWorkflowManagerGone(channel) ==
    /\ reactor_pc = "running"
    /\ channel \in reactor_futures.manager_gone
    /\ channel \in closed_managers
    /\ ReactorBreaks(ReactorResult("WorkflowManagerGone", "", None, channel))

\* The stream has a consumer whose response channel is open.
HasLiveConsumer(stream_name) ==
    /\ stream_name \in DOMAIN stream_response_channels
    /\ \E i \in DOMAIN stream_response_channels[stream_name] :
          stream_response_channels[stream_name][i] \notin closed_response_channels

\* The executor answers a lookup: ExecutorResponseReceived.
HandleExecutorResponseReceived(stream_name, workflow) ==
    /\ reactor_pc = "running"
    /\ reactor_futures.executor[stream_name] > 0
    /\ ReactorBecomes(
           handle_executor_response(
               [ Reactor EXCEPT !.futures.executor[stream_name] = @ - 1 ],
               stream_name, workflow),
           ReactorResult("ExecutorResponseReceived", stream_name, workflow, 0))
    /\ distinct_results' =
           IF workflow # None /\ HasLiveConsumer(stream_name)
           THEN distinct_results \cup { << stream_name, workflow[1] >> }
           ELSE distinct_results
    /\ UNCHANGED << reactor_requests, request_senders_dropped, hub_events,
                    hub_dropped, closed_response_channels, closed_managers,
                    requests_sent, registrations_sent, polls >>

\* An update timer expires: UpdateStreamNameRequested.
HandleUpdateStreamNameRequested(stream_name) ==
    /\ reactor_pc = "running"
    /\ reactor_futures.timers[stream_name] > 0
    /\ polls < MaxPolls
    /\ polls' = polls + 1
    /\ ReactorBecomes(
           update_stream_name_requested(
               [ Reactor EXCEPT !.futures.timers[stream_name] = @ - 1 ],
               stream_name),
           ReactorResult("UpdateStreamNameRequested", stream_name, None, 0))
    /\ UNCHANGED << reactor_requests, request_senders_dropped, hub_events,
                    hub_dropped, closed_response_channels, closed_managers,
                    requests_sent, registrations_sent, distinct_results >>

\* A notify_when_response_channel_closed future resolves:
\* ClientResponseChannelClosed.
HandleClientResponseChannelClosed(channel, stream_name) ==
    /\ reactor_pc = "running"
    /\ << channel, stream_name >> \in reactor_futures.response_closed
    /\ channel \in closed_response_channels
    /\ ReactorBecomes(
           handle_response_channel_closed(
               [ Reactor EXCEPT !.futures.response_closed =
                   @ \ { << channel, stream_name >> } ],
               stream_name),
           ReactorResult("ClientResponseChannelClosed", stream_name, None,
                         channel))
    /\ UNCHANGED << reactor_requests, request_senders_dropped, hub_events,
                    hub_dropped, closed_response_channels, closed_managers,
                    requests_sent, registrations_sent, polls, distinct_results >>

ExecutorResults == { None } \cup { Some(w) : w \in WorkflowDefinitions }

ReactorNext ==
    \/ \E interval \in {0, 1} : StartReactor(interval)
    \/ \E stream_name \in StreamNames : SendRequest(stream_name)
    \/ DropRequestSenders
    \/ \E channel \in Managers : AnnounceManager(channel)
    \/ DropHub
    \/ \E channel \in ResponseChannels : CloseResponseChannel(channel)
    \/ \E channel \in Managers : CloseManager(channel)
    \/ HandleRequestReceived
    \/ HandleAllRequestConsumersGone
    \/ \E order \in StreamNameOrders : HandleWorkflowManagerEventReceived(order)
    \/ HandleEventHubGone
    \/ \E channel \in Managers : HandleWorkflowManagerGone(channel)
    \/ \E stream_name \in StreamNames, workflow \in ExecutorResults :
          HandleExecutorResponseReceived(stream_name, workflow)
    \/ \E stream_name \in StreamNames :
          HandleUpdateStreamNameRequested(stream_name)
    \/ \E channel \in ResponseChannels, stream_name \in StreamNames :
          HandleClientResponseChannelClosed(channel, stream_name)

ReactorSpec == Init /\ [][ReactorNext]_reactor_vars

(***************************************************************************)
(* Properties of the reactor.  They are stated on the state a handler      *)
(* leaves: handled is the future result it handled, before the fields it   *)
(* found, sent the messages it sent.                                       *)
(***************************************************************************)
ToManagers(sends) == SelectSeq(sends, LAMBDA m : m.to = "manager")

ToResponses(sends) == SelectSeq(sends, LAMBDA m : m.to = "response")

\* The last handler handled an executor result Some(def) for a stream name
\* that had another workflow name cached.
ReplacedWorkflow ==
    /\ handled.result = "ExecutorResponseReceived"
    /\ handled.workflow # None
    /\ handled.stream_name \in DOMAIN before.cache
    /\ before.cache[handled.stream_name].name # handled.workflow[1].name

\* C11: when a stream name has def1 cached and a manager channel is known,
\* and the executor result Some(def2) of another workflow name arrives for
\* it, the sends to the manager are StopWorkflow(def1.name) and then
\* UpsertWorkflow(def2) and no other, the cache entry becomes def2, and each
\* response channel registered for the stream name is sent
\* ReactorWorkflowUpdate{Some(def2.name)}, delivered where its receiver lives.
C11_ReplacedWorkflowStoppedThenUpserted ==
    (ReplacedWorkflow /\ before.manager # 0) =>
        LET n == handled.stream_name
            def1 == before.cache[n]
            def2 == handled.workflow[1]
            channels == IF n \in DOMAIN before.channels
                        THEN before.channels[n] ELSE << >>
        IN /\ ToManagers(sent) = << StopWorkflow(before.manager, def1.name),
                                    UpsertWorkflow(before.manager, def2) >>
           /\ n \in DOMAIN cached_workflows_for_stream_name
           /\ cached_workflows_for_stream_name[n] = def2
           /\ ToResponses(sent) =
                  [ i \in DOMAIN channels |->
                      ReactorWorkflowUpdate(channels[i], Some(def2.name)) ]
           /\ \A i \in DOMAIN sent :
                 sent[i].ok <=> sent[i].id \notin
                     (IF sent[i].to = "manager" THEN closed_managers
                      ELSE closed_response_channels)

\* A workflow was replaced with the manager and a subscriber listening.
C11_Witness ==
    /\ ReplacedWorkflow
    /\ before.manager # 0
    /\ before.manager \notin closed_managers
    /\ \E i \in DOMAIN sent : sent[i].to = "response" /\ sent[i].ok

\* The channels of the list that the consumer has not closed.
OpenChannels(channels) ==
    SelectSeq(channels, LAMBDA c : c \notin closed_response_channels)

\* C12: when the handler of a closed response channel finds no open channel
\* left for the stream name and a workflow cached for it, the cache entry
\* and the channel list of the stream name are removed and the manager, if
\* one is known, is sent StopWorkflow of the cached name and nothing else;
\* while another channel of the stream is open, the cache is kept, the open
\* channels stay listed and nothing is sent.
C12_LastChannelClosedStopsWorkflow ==
    (/\ handled.result = "ClientResponseChannelClosed"
     /\ handled.stream_name \in DOMAIN before.channels) =>
        LET n == handled.stream_name
            open == OpenChannels(before.channels[n])
        IN IF open = << >>
           THEN /\ n \notin DOMAIN stream_response_channels
                /\ n \notin DOMAIN cached_workflows_for_stream_name
                /\ sent = IF n \in DOMAIN before.cache /\ before.manager # 0
                          THEN << StopWorkflow(before.manager,
                                               before.cache[n].name) >>
                          ELSE << >>
                /\ \A other \in StreamNames \ { n } :
                      /\ other \in DOMAIN cached_workflows_for_stream_name
                            <=> other \in DOMAIN before.cache
                      /\ other \in DOMAIN before.cache =>
                            cached_workflows_for_stream_name[other]
                                = before.cache[other]
           ELSE /\ cached_workflows_for_stream_name = before.cache
                /\ stream_response_channels =
                       [ before.channels EXCEPT ![n] = open ]
                /\ sent = << >>

\* The last of two channels of a stream with a cached workflow was closed,
\* a manager being known.
C12_Witness ==
    /\ handled.result = "ClientResponseChannelClosed"
    /\ handled.stream_name \in DOMAIN before.channels
    /\ Len(before.channels[handled.stream_name]) = 2
    /\ handled.stream_name \in DOMAIN before.cache
    /\ before.manager # 0
    /\ sent # << >>

\* C13: while a manager is registered, the number of UpsertWorkflow requests
\* the reactor has sent equals the number of distinct Some(def) results the
\* executor has produced for stream names that had a live consumer.
C13_UpsertsEqualDistinctResults ==
    (reactor_pc = "running" /\ workflow_manager # 0) =>
        upserts_sent = Cardinality(distinct_results)

\* C14: every StopWorkflow(name) the reactor sends goes to the manager it
\* held and names the workflow that was cached for the stream name of the
\* handled result, and the handler has removed that cache entry or replaced
\* it by a definition of another name.
C14_StopNamesInvalidatedEntry ==
    \A i \in DOMAIN sent :
        sent[i].op = "StopWorkflow" =>
            LET n == handled.stream_name
            IN /\ sent[i].id = before.manager
               /\ n \in DOMAIN before.cache
               /\ sent[i].name = Some(before.cache[n].name)
               /\ \/ n \notin DOMAIN cached_workflows_for_stream_name
                  \/ cached_workflows_for_stream_name[n].name
                         # before.cache[n].name

\* A StopWorkflow was sent for an entry that was replaced.
C14_Witness ==
    /\ \E i \in DOMAIN sent : sent[i].op = "StopWorkflow"
    /\ handled.stream_name \in DOMAIN cached_workflows_for_stream_name

\* C15: with update_interval = 0 no update timer is ever pending or
\* handled, and a handler calls get_workflow only when it handles a
\* CreateWorkflowNameForStream request that finds no cached definition, and
\* then once, for the stream name of the request.
C15_OneLookupPerFreshRequest ==
    update_interval = 0 =>
        /\ \A n \in StreamNames : reactor_futures.timers[n] = 0
        /\ handled.result # "UpdateStreamNameRequested"
        /\ called # << >> =>
              /\ handled.result = "RequestReceived"
              /\ handled.stream_name \notin DOMAIN before.cache
              /\ called = << handled.stream_name >>
        /\ (handled.result = "RequestReceived"
                /\ handled.stream_name \in DOMAIN before.cache) =>
              called = << >>

\* With update_interval = 0, a second request for a stream found its
\* definition cached, after the first had the executor asked.
C15_Witness ==
    /\ update_interval = 0
    /\ reactor_pc = "running"
    /\ handled.result = "RequestReceived"
    /\ handled.stream_name \in DOMAIN before.cache
    /\ handled.channel = 2

\* C16: no response channel is delivered the workflow name it was delivered
\* last.
C16_OneUpdatePerChange == repeated_updates = {}

\* C17: the reactor's loop is left only on AllRequestConsumersGone, on
\* EventHubGone, or on the closing of the manager channel it holds.
C17_ExitsOnlyOnCurrentManagerGone ==
    reactor_pc = "closed" =>
        \/ handled.result \in { "AllRequestConsumersGone", "EventHubGone" }
        \/ /\ handled.result = "WorkflowManagerGone"
           /\ handled.channel = before.manager

\* C18: the handler of a WorkflowManagerRegistered event sends the announced
\* channel one UpsertWorkflow per cache entry, with the entry's definition,
\* and nothing else, and the announced channel becomes the manager; every
\* other handler sends its manager requests to the manager it held, and
\* leaves it in place unless the loop is left.
C18_RegistrationCatchesUp ==
    IF handled.result = "WorkflowManagerEventReceived"
    THEN /\ workflow_manager = handled.channel
         /\ cached_workflows_for_stream_name = before.cache
         /\ Len(sent) = Cardinality(DOMAIN before.cache)
         /\ \A i \in DOMAIN sent :
               \E n \in DOMAIN before.cache :
                  sent[i] = UpsertWorkflow(handled.channel, before.cache[n])
         /\ \A n \in DOMAIN before.cache :
               Cardinality({ i \in DOMAIN sent :
                               sent[i].definition = Some(before.cache[n]) })
                 = Cardinality({ o \in DOMAIN before.cache :
                                   before.cache[o] = before.cache[n] })
    ELSE /\ \A i \in DOMAIN sent :
               sent[i].to = "manager" =>
                   before.manager # 0 /\ sent[i].id = before.manager
         /\ (handled.result # "none" /\ reactor_pc = "running") =>
               workflow_manager = before.manager

\* A manager registered when none was known and two workflows were cached:
\* both were upserted to it.
C18_Witness ==
    /\ handled.result = "WorkflowManagerEventReceived"
    /\ before.manager = 0
    /\ Len(sent) = 2
    /\ \A i \in DOMAIN sent : sent[i].ok

\* C19: the Some(def) result of a lookup that was in flight when its
\* stream's cache entry was dropped inserts no cache entry and has no
\* UpsertWorkflow sent.
C19_DroppedEntryCancelsPoll ==
    (stale /\ handled.workflow # None) =>
        /\ handled.stream_name \notin DOMAIN cached_workflows_for_stream_name
        /\ \A i \in DOMAIN sent : sent[i].op # "UpsertWorkflow"

\* The response channels the handler found registered for stream name n.
ChannelsBefore(n) ==
    IF n \in DOMAIN before.channels THEN before.channels[n] ELSE << >>

\* C33: the handler of a CreateWorkflowNameForStream request leaves the
\* response channel appended to the channel list of the stream name, the
\* other lists and the cache as they were, and a closed-channel watcher of
\* the channel pending; when it found a definition cached for the stream
\* name it sent one message, ReactorWorkflowUpdate with the cached name on
\* that channel, and did not call the executor; otherwise it sent nothing
\* and called the executor once, for the stream name.
C33_RequestAnsweredFromCacheOrLookedUp ==
    handled.result = "RequestReceived" =>
        LET n == handled.stream_name
            channel == handled.channel
        IN /\ n \in DOMAIN stream_response_channels
           /\ stream_response_channels[n] = Append(ChannelsBefore(n), channel)
           /\ DOMAIN stream_response_channels = DOMAIN before.channels \cup { n }
           /\ \A o \in DOMAIN before.channels \ { n } :
                 stream_response_channels[o] = before.channels[o]
           /\ cached_workflows_for_stream_name = before.cache
           /\ << channel, n >> \in reactor_futures.response_closed
           /\ IF n \in DOMAIN before.cache
              THEN /\ Len(sent) = 1
                   /\ sent[1].to = "response" /\ sent[1].id = channel
                   /\ sent[1].op = "ReactorWorkflowUpdate"
                   /\ sent[1].name = Some(before.cache[n].name)
                   /\ called = << >>
              ELSE /\ sent = << >>
                   /\ called = << n >>

\* A second request for a stream name found its definition cached and a
\* channel registered already.
C33_Witness ==
    /\ handled.result = "RequestReceived"
    /\ handled.stream_name \in DOMAIN before.cache
    /\ ChannelsBefore(handled.stream_name) # << >>
    /\ Len(sent) = 1 /\ sent[1].ok
    /\ called = << >>

\* The entries of map f but that of key k are those of map g.
SameBut(f, g, k) ==
    /\ DOMAIN f \ { k } = DOMAIN g \ { k }
    /\ \A x \in DOMAIN f \ { k } : f[x] = g[x]

\* C34: the handler of an executor result None for a stream name sent
\* ReactorWorkflowUpdate with no name to every response channel it found
\* registered for the stream name, in their order, and after them
\* StopWorkflow of the cached name to the manager when, and only when, it
\* found a cache entry for the stream name and held a manager, and sent
\* nothing else (no UpsertWorkflow); it leaves neither channel list nor
\* cache entry for the stream name, the other streams' as they were, pushed
\* no update timer and did not call the executor.
C34_NoWorkflowDropsStream ==
    (handled.result = "ExecutorResponseReceived" /\ handled.workflow = None) =>
        LET n == handled.stream_name
            channels == ChannelsBefore(n)
            stops == IF n \in DOMAIN before.cache /\ before.manager # 0
                     THEN 1 ELSE 0
        IN /\ n \notin DOMAIN stream_response_channels
           /\ n \notin DOMAIN cached_workflows_for_stream_name
           /\ SameBut(stream_response_channels, before.channels, n)
           /\ SameBut(cached_workflows_for_stream_name, before.cache, n)
           /\ Len(sent) = Len(channels) + stops
           /\ \A i \in DOMAIN channels :
                 /\ sent[i].to = "response" /\ sent[i].id = channels[i]
                 /\ sent[i].op = "ReactorWorkflowUpdate"
                 /\ sent[i].name = None
           /\ stops = 1 =>
                 /\ sent[Len(sent)].to = "manager"
                 /\ sent[Len(sent)].id = before.manager
                 /\ sent[Len(sent)].op = "StopWorkflow"
                 /\ sent[Len(sent)].name = Some(before.cache[n].name)
           /\ scheduled = << >>
           /\ called = << >>

\* The executor answered None for a stream with two response channels and
\* a cached workflow while a manager was held: two updates and the stop.
C34_Witness ==
    /\ handled.result = "ExecutorResponseReceived"
    /\ handled.workflow = None
    /\ Len(ChannelsBefore(handled.stream_name)) = 2
    /\ handled.stream_name \in DOMAIN before.cache
    /\ before.manager # 0
    /\ Len(sent) = 3

\* C35: the handler of an executor result Some(workflow) pushes one update
\* timer, for the stream name of the result, when update_interval is not
\* zero and none when it is zero; no other handler pushes a timer; the
\* handler of an expired timer calls the executor once, for the timer's
\* stream name, when it finds the stream name in the cache and not at all
\* otherwise; and with update_interval = 0 no timer is pending.
C35_TimerPerResultAndCachedRepoll ==
    /\ IF handled.result = "ExecutorResponseReceived" /\ handled.workflow # None
       THEN scheduled = IF update_interval # 0
                        THEN << handled.stream_name >> ELSE << >>
       ELSE scheduled = << >>
    /\ handled.result = "UpdateStreamNameRequested" =>
          /\ called = IF handled.stream_name \in DOMAIN before.cache
                      THEN << handled.stream_name >> ELSE << >>
          /\ sent = << >>
          /\ cached_workflows_for_stream_name = before.cache
          /\ stream_response_channels = before.channels
    /\ update_interval = 0 =>
          \A n \in StreamNames : reactor_futures.timers[n] = 0

\* The timer of a stream expired after the stream's cache entry was
\* dropped: the executor was not asked.
C35_Witness ==
    /\ handled.result = "UpdateStreamNameRequested"
    /\ handled.stream_name \notin DOMAIN before.cache
    /\ called = << >>
    /\ update_interval # 0

\* C37: every stream name with a cache entry has a channel list, which
\* holds a response channel.
C37_CachedStreamHasChannel ==
    \A n \in DOMAIN cached_workflows_for_stream_name :
       /\ n \in DOMAIN stream_response_channels
       /\ stream_response_channels[n] # << >>

\* C38: for every stream name, the executor lookups in flight and the
\* update timers pending are one at most, together.
C38_OneOutstandingPoll ==
    \A n \in StreamNames :
       reactor_futures.executor[n] + reactor_futures.timers[n] <= 1

\* C39: no handler sends StopWorkflow of a name that is the name of the
\* definition cached for a stream name that has a response channel whose
\* receiver its consumer holds.
C39_NoStopOfWorkflowInUse ==
    \A i \in DOMAIN sent :
       sent[i].op = "StopWorkflow" =>
          ~ \E n \in DOMAIN cached_workflows_for_stream_name :
               /\ Some(cached_workflows_for_stream_name[n].name) = sent[i].name
               /\ HasLiveConsumer(n)

(***************************************************************************)
(* The configuration parser.  An argument is the pair of one of the three  *)
(* rules an argument may hold; key is its text, or the key of a key=value  *)
(* pair.  The input is laid out as in the tests of config.rs: a node block *)
(* takes the line of its header, one line per child node and the line of   *)
(* its closing brace, and the first block starts at line 1.  quoted is the *)
(* text of the quoted_string_value pair inside the value of a key=value    *)
(* pair, if the value is a quoted string.                                  *)
(***************************************************************************)
Argument(rule, key, value) ==
    [ rule |-> rule, key |-> key, value |-> value, quoted |-> << >> ]

Flag(text) == Argument("argument_flag", text, "")

\* A quoted argument: the pair's text is the text between the quotes.
QuotedString(text) == Argument("quoted_string_value", text, "")

KeyValue(key, value) == Argument("key_value_pair", key, value)

\* key="inner": the value pair's text is value, quotes included.
KeyQuotedValue(key, value, inner) ==
    [ Argument("key_value_pair", key, value) EXCEPT !.quoted = << inner >> ]

ChildNode(name, arguments) == [ name |-> name, arguments |-> arguments ]

NodeBlock(name, arguments, children) ==
    [ name |-> name, arguments |-> arguments, children |-> children ]

\* The node blocks an input is made of.
NodeBlocks ==
    { NodeBlock("settings", << >>, << ChildNode("flag", << >>) >>),
      NodeBlock("settings", << >>, << ChildNode("k", << KeyValue("v", "1") >>) >>),
      NodeBlock("workflow", << Flag("a") >>,
                << ChildNode("rtmp_receive", << KeyValue("port", "1935") >>) >>),
      NodeBlock("Workflow", << Flag("a") >>,
                << ChildNode("another", << Flag("a") >>) >>),
      NodeBlock("workflow", << Flag("b") >>, << >>),
      NodeBlock("workflow", << >>, << >>),
      NodeBlock("workflow", << Flag("a"), Flag("x") >>, << >>),
      NodeBlock("bogus", << >>, << >>),
      NodeBlock("settings", << >>,
                << ChildNode("first", << Flag("a") >>),
                   ChildNode("second", << QuotedString("program files") >>),
                   ChildNode("flag", << >>) >>),
      NodeBlock("settings", << >>, << ChildNode("first", << Flag("b") >>) >>),
      NodeBlock("workflow", << Flag("name") >>,
                << ChildNode("rtmp_receive",
                             << KeyValue("port", "1935"), KeyValue("stream_key", "*") >>),
                   ChildNode("hls",
                             << KeyQuotedValue("segment_size", "\"3\"", "3"),
                                KeyValue("size", "640x480"), Flag("flag"),
                                KeyValue("size", "1x1") >>) >>),
      NodeBlock("settings", << >>,
                << ChildNode("flag", << >>),
                   ChildNode("pair", << Flag("a"), Flag("b") >>) >>),
      NodeBlock("settings", << >>,
                << ChildNode("twice", << Flag("a"), Flag("a") >>) >>) }

\* The lines a node block takes, and the line of the header of block i of
\* the input: pair.as_span().start_pos().line_col().0
LinesOf(block) == Len(block.children) + 2

RECURSIVE StartingLine(_, _)
StartingLine(input, i) ==
    IF i = 1 THEN 1 ELSE StartingLine(input, i - 1) + LinesOf(input[i - 1])

Contents ==
    UNION { [ 1 .. n -> NodeBlocks ] : n \in 0 .. MaxBlocks }

\* str::to_lowercase on the node names in play.
to_lowercase(name) ==
    IF name = "Workflow" THEN "workflow"
    ELSE IF name = "Settings" THEN "settings"
    ELSE name

\* The Result of a function on the config: the error, NoError for Ok(()),
\* and the config as the function leaves it.
Result(error, c) == [ error |-> error, config |-> c ]

\* Every argument read as a flag.
ReadArgumentAsFlag(argument) == [ key |-> argument.key, value |-> None ]

\* read_argument: the key and the optional value of an argument.
read_argument(argument) ==
    IF argument.rule = "key_value_pair"
    THEN [ key |-> argument.key,
           value |-> Some(IF argument.quoted # None THEN argument.quoted[1]
                          ELSE argument.value) ]
    ELSE [ key |-> argument.key, value |-> None ]

\* parsed_node.arguments.insert(key, value) for each argument in turn.
RECURSIVE InsertArguments(_, _)
InsertArguments(map, arguments) ==
    IF arguments = << >> THEN map
    ELSE LET a == read_argument(Head(arguments))
         IN InsertArguments(MapPut(map, a.key, a.value), Tail(arguments))

\* read_child_node.
read_child_node(child_node) ==
    [ name |-> child_node.name,
      arguments |-> InsertArguments(EmptyMap, child_node.arguments) ]

\* The loop of read_settings over the child nodes; line is the line of the
\* first of them.
RECURSIVE ReadSettingsChildren(_, _, _)
ReadSettingsChildren(c, children, line) ==
    IF children = << >> THEN Result(NoError, c)
    ELSE LET child_node == read_child_node(Head(children))
             keys == DOMAIN child_node.arguments
         IN IF Cardinality(keys) > 1
            THEN Result(ConfigParseError("TooManySettingArguments", "", line), c)
            ELSE IF keys # {}
            THEN LET key == CHOOSE k \in keys : TRUE
                 IN IF child_node.arguments[key] # None
                    THEN Result(ConfigParseError("InvalidSettingArgumentFormat",
                                                 "", line), c)
                    ELSE ReadSettingsChildren(
                             [ c EXCEPT !.settings =
                                 MapPut(@, child_node.name, Some(key)) ],
                             Tail(children), line + 1)
            ELSE ReadSettingsChildren(
                     [ c EXCEPT !.settings = MapPut(@, child_node.name, None) ],
                     Tail(children), line + 1)

\* read_settings: the arguments of the header come first among the pairs.
read_settings(c, block, line) ==
    IF block.arguments # << >>
    THEN Result(ConfigParseError("ArgumentsSpecifiedOnSettingNode", "", line), c)
    ELSE ReadSettingsChildren(c, block.children, line + 1)

\* The Rule::argument arm of read_workflow over the header's arguments:
\* the error, and the workflow name read so far.
RECURSIVE ReadWorkflowArguments(_, _, _)
ReadWorkflowArguments(workflow_name, arguments, line) ==
    IF arguments = << >>
    THEN [ error |-> NoError, workflow_name |-> workflow_name ]
    ELSE IF workflow_name # None
    THEN [ error |-> ConfigParseError("TooManyWorkflowArguments", "", line),
           workflow_name |-> workflow_name ]
    ELSE LET a == read_argument(Head(arguments))
         IN IF a.value # None
            THEN [ error |-> ConfigParseError("InvalidWorkflowName", a.key, line),
                   workflow_name |-> workflow_name ]
            ELSE ReadWorkflowArguments(Some(a.key), Tail(arguments), line)

\* The steps pushed at the front of the vector.
WorkflowStepsReversed(children) ==
    [ i \in DOMAIN children |->
        [ step_type |-> read_child_node(children[Len(children) + 1 - i]).name,
          parameters |-> read_child_node(children[Len(children) + 1 - i]).arguments ] ]

\* The Rule::child_node arm of read_workflow: one WorkflowStepDefinition
\* pushed per child node.
WorkflowSteps(children) ==
    [ i \in DOMAIN children |->
        [ step_type |-> read_child_node(children[i]).name,
          parameters |-> read_child_node(children[i]).arguments ] ]

\* A map that is never found to hold the name.
ContainsKeyNever(workflows, name) == FALSE

\* config.workflows.contains_key(&name)
ContainsKey(workflows, name) == name \in DOMAIN workflows

\* read_workflow.
read_workflow(c, block, starting_line) ==
    LET header == ReadWorkflowArguments(None, block.arguments, starting_line)
        steps == WorkflowSteps(block.children)
    IN IF header.error # NoError THEN Result(header.error, c)
       ELSE IF header.workflow_name = None
       THEN Result(ConfigParseError("NoNameOnWorkflow", "", starting_line), c)
       ELSE LET name == header.workflow_name[1]
            IN IF ContainsKey(c.workflows, name)
               THEN Result(ConfigParseError("DuplicateWorkflowName", name, 0), c)
               ELSE Result(NoError,
                           [ c EXCEPT !.workflows =
                               MapPut(@, name, [ name |-> name, steps |-> steps ]) ])

\* handle_node_block.
handle_node_block(c, block, line) ==
    LET name == to_lowercase(block.name)
    IN IF name = "settings" THEN read_settings(c, block, line)
       ELSE IF name = "workflow" THEN read_workflow(c, block, line)
       ELSE Result(ConfigParseError("InvalidNodeName", block.name, line), c)

(***************************************************************************)
(* The parser's state machine: parse is called on an input, its loop       *)
(* handles one node block per step, and it returns.                        *)
(***************************************************************************)

\* parse is called: an empty config, and the pairs of the content.
Parse(input) ==
    /\ parse_pc = "idle"
    /\ parse_pc' = "parsing"
    /\ content' = input
    /\ next_block' = 1
    /\ config' = NewConfig
    /\ UNCHANGED << parse_error, returned >>
    /\ UNCHANGED << vars, reactor_vars, receiver_vars, sender_vars >>

\* One turn of the loop of parse: handle_node_block(&mut config, pair)?
HandleNodeBlock ==
    /\ parse_pc = "parsing"
    /\ next_block <= Len(content)
    /\ LET result == handle_node_block(config, content[next_block],
                                       StartingLine(content, next_block))
       IN /\ config' = result.config
          /\ parse_error' = result.error
          /\ IF result.error = NoError
             THEN /\ next_block' = next_block + 1
                  /\ UNCHANGED parse_pc
             ELSE /\ parse_pc' = "done"
                  /\ UNCHANGED next_block
    /\ UNCHANGED << content, returned >>
    /\ UNCHANGED << vars, reactor_vars, receiver_vars, sender_vars >>

\* Ok(config) after the last pair.
ReturnConfig ==
    /\ parse_pc = "parsing"
    /\ next_block > Len(content)
    /\ parse_pc' = "done"
    /\ returned' = Some(config)
    /\ UNCHANGED << content, next_block, config, parse_error >>
    /\ UNCHANGED << vars, reactor_vars, receiver_vars, sender_vars >>

ConfigNext ==
    \/ \E input \in Contents : Parse(input)
    \/ HandleNodeBlock
    \/ ReturnConfig

ConfigSpec == Init /\ [][ConfigNext]_config_vars

(***************************************************************************)
(* The receive step on its own.  The endpoint announces a connection with  *)
(* NewPublisherConnected only while the connection is not publishing, and  *)
(* with a stream id it has not used; every other message it may send for   *)
(* any connection at any time, and it may drop its sender at any time.     *)
(***************************************************************************)
\* The history of the connections with an emitted NewIncomingStream and no
\* emitted StreamDisconnected, over the outputs of one execute for
\* connection conn.
RECURSIVE TrackEmitted(_, _, _)
TrackEmitted(open, conn, media) ==
    IF media = <<>>
    THEN open
    ELSE LET m == Head(media)
             open2 == IF m.type = "NewIncomingStream" THEN MapPut(open, conn, m.stream_id)
                      ELSE IF m.type = "StreamDisconnected" THEN MapDel(open, conn)
                      ELSE open
         IN TrackEmitted(open2, conn, Tail(media))

RECURSIVE CountEmitted(_, _)
CountEmitted(count, media) ==
    IF media = <<>>
    THEN count
    ELSE LET m == Head(media)
         IN CountEmitted(IF << m.type, m.stream_id >> \in DOMAIN count
                         THEN [count EXCEPT ![<< m.type, m.stream_id >>] = @ + 1]
                         ELSE count,
                         Tail(media))

\* WorkflowStep::execute of the step, with the resolved future of its
\* message channel as the only notification.
ReceiverExecute(result) ==
    LET out == RtmpReceiveExecute(receiver, << result >>, <<>>)
    IN /\ receiver' = out.step
       /\ receiver_waiting' = (out.futures > 0)
       /\ received' = Some(result)
       /\ emitted' = out.media
       /\ emitted_open' = TrackEmitted(emitted_open, result.conn, out.media)
       /\ emitted_count' = CountEmitted(emitted_count, out.media)
       /\ UNCHANGED << vars, reactor_vars, config_vars, sender_vars >>

\* The endpoint answers the ListenForPublishers request.
ReceiverRegistrationAnswered ==
    /\ receiver_waiting
    /\ receiver.status = "Created"
    /\ \E m \in {"PublisherRegistrationSuccessful", "PublisherRegistrationFailed"} :
          ReceiverExecute(FutureResult("rtmp_receive", m, 0, FALSE))
    /\ UNCHANGED << publishers, publishing >>

\* NewPublisherConnected for connection c, with a stream id of its own.
ReceiverPublisherConnected(c) ==
    /\ receiver_waiting
    /\ publishers < MaxPublishers
    /\ c \notin DOMAIN publishing
    /\ LET stream_id == 10 + publishers + 1
       IN /\ ReceiverExecute(
                [FutureResult("rtmp_receive", "NewPublisherConnected", c, FALSE)
                    EXCEPT !.stream_id = stream_id])
          /\ publishers' = publishers + 1
          /\ publishing' = MapPut(publishing, c, stream_id)

\* PublishingStopped for connection c, publishing or not.
ReceiverPublishingStopped(c) ==
    /\ receiver_waiting
    /\ ReceiverExecute(FutureResult("rtmp_receive", "PublishingStopped", c, FALSE))
    /\ publishing' = MapDel(publishing, c)
    /\ UNCHANGED publishers

\* StreamMetadataChanged, NewVideoData or NewAudioData for connection c,
\* publishing or not.
ReceiverPublisherData(c, m, is_sequence_header) ==
    /\ receiver_waiting
    /\ ReceiverExecute(FutureResult("rtmp_receive", m, c, is_sequence_header))
    /\ UNCHANGED << publishers, publishing >>

\* The endpoint dropped its sender: RtmpEndpointGone.
ReceiverEndpointGone ==
    /\ receiver_waiting
    /\ ReceiverExecute(FutureResult("rtmp_receive", "Gone", 0, FALSE))
    /\ UNCHANGED << publishers, publishing >>

\* The runner executes the step with media of the previous steps and no
\* notification.
ReceiverMediaInput(media) ==
    /\ LET out == RtmpReceiveExecute(receiver, <<>>, media)
       IN /\ receiver' = out.step
          /\ emitted' = out.media
          /\ emitted_count' = CountEmitted(emitted_count, out.media)
    /\ received' = None
    /\ UNCHANGED << receiver_waiting, publishers, publishing, emitted_open >>
    /\ UNCHANGED << vars, reactor_vars, config_vars, sender_vars >>

ReceiverNext ==
    \/ ReceiverRegistrationAnswered
    \/ \E c \in Connections : ReceiverPublisherConnected(c)
    \/ \E c \in Connections : ReceiverPublishingStopped(c)
    \/ \E c \in Connections :
          \E m \in {"StreamMetadataChanged", "NewVideoData", "NewAudioData"} :
             \E h \in { b \in BOOLEAN : b => m # "StreamMetadataChanged" } :
                ReceiverPublisherData(c, m, h)
    \/ ReceiverEndpointGone
    \/ \E z \in PublisherStreamIds :
          \E t \in {"NewIncomingStream", "Video"} :
             ReceiverMediaInput(<< Media(z, t, FALSE) >>)

ReceiverSpec == Init /\ [][ReceiverNext]_receiver_vars

(***************************************************************************)
(* Properties of the receive step.                                         *)
(***************************************************************************)
\* C24: what the receive step emits on a Metadata, Video or Audio message
\* of a connection is nothing unless NewPublisherConnected was received for
\* the connection and no PublishingStopped since, and is then one
\* notification carrying the stream id of the NewIncomingStream emitted for
\* the connection, for which no StreamDisconnected was emitted since; media
\* of previous steps makes it emit nothing; and for every stream id it has
\* emitted at most one StreamDisconnected, and none without a
\* NewIncomingStream.
C24_ReceiveStepStreamIds ==
    /\ DOMAIN emitted_open = DOMAIN publishing
    /\ \A c \in DOMAIN publishing : emitted_open[c] = publishing[c]
    /\ received = None => emitted = <<>>
    /\ received # None /\ received[1].msg \in {"StreamMetadataChanged", "NewVideoData",
                                               "NewAudioData"}
          => IF received[1].conn \in DOMAIN publishing
             THEN /\ Len(emitted) = 1
                  /\ emitted[1].type \in {"Metadata", "Video", "Audio"}
                  /\ emitted[1].stream_id = emitted_open[received[1].conn]
             ELSE emitted = <<>>
    /\ \A i \in DOMAIN emitted :
          emitted[i].type \in {"Metadata", "Video", "Audio"}
             => /\ received # None
                /\ received[1].conn \in DOMAIN emitted_open
                /\ emitted[i].stream_id = emitted_open[received[1].conn]
    /\ \A z \in PublisherStreamIds :
          /\ emitted_count[<< "StreamDisconnected", z >>]
                <= emitted_count[<< "NewIncomingStream", z >>]
          /\ emitted_count[<< "StreamDisconnected", z >>] <= 1

\* Connection 1 published stream 11 and stopped, connection 2 is publishing
\* stream 12, and video of connection 1 has just made the step emit
\* nothing.
C24_Witness ==
    /\ emitted_count[<< "NewIncomingStream", 11 >>] = 1
    /\ emitted_count[<< "StreamDisconnected", 11 >>] = 1
    /\ 2 \in DOMAIN emitted_open /\ emitted_open[2] = 12
    /\ received # None
    /\ received[1].msg = "NewVideoData" /\ received[1].conn = 1
    /\ emitted = <<>>

(***************************************************************************)
(* Properties of the parser.                                               *)
(***************************************************************************)
\* The block is a workflow block with a name: a workflow node whose header
\* holds one argument, which is not of the key=value form.
NamedWorkflow(block) ==
    /\ block.name \in { "workflow", "Workflow" }
    /\ Len(block.arguments) = 1
    /\ block.arguments[1].rule # "key_value_pair"

\* The block is one the grammar of the configuration accepts: a settings
\* node without header arguments whose children hold at most one argument,
\* not of the key=value form, or a workflow block with a name.
WellFormed(block) ==
    \/ NamedWorkflow(block)
    \/ /\ block.name \in { "settings", "Settings" }
       /\ block.arguments = << >>
       /\ \A i \in DOMAIN block.children :
             /\ Len(block.children[i].arguments) <= 1
             /\ \A k \in DOMAIN block.children[i].arguments :
                   block.children[i].arguments[k].rule # "key_value_pair"

\* Blocks i and j of the input are workflow blocks of one name, i first.
SameName(i, j) ==
    /\ i < j
    /\ NamedWorkflow(content[i])
    /\ NamedWorkflow(content[j])
    /\ content[i].arguments[1].key = content[j].arguments[1].key

\* C20 as stated: parsing an input that holds two workflow blocks of one
\* name, wherever they stand among the other blocks, returns
\* DuplicateWorkflowName with that name and no configuration.
C20_DuplicateNameAlwaysReported ==
    (parse_pc = "done" /\ \E i, j \in DOMAIN content : SameName(i, j)) =>
        /\ parse_error.kind = "DuplicateWorkflowName"
        /\ \E i, j \in DOMAIN content :
              SameName(i, j) /\ parse_error.name = content[i].arguments[1].key
        /\ returned = None

\* C20 amended: when block j is the first block of the input to repeat the
\* name of a workflow block before it, and every block before j is well
\* formed, parse returns DuplicateWorkflowName with that name and no
\* configuration, at block j, and the definition held under the name is
\* that of the first block of the name.
C20_DuplicateNameReported ==
    parse_pc = "done" =>
        \A i, j \in DOMAIN content :
            (/\ SameName(i, j)
             /\ \A k \in 1 .. (j - 1) : WellFormed(content[k])
             /\ \A k, l \in 1 .. (j - 1) : ~SameName(k, l)) =>
                LET name == content[i].arguments[1].key
                IN /\ parse_error = ConfigParseError("DuplicateWorkflowName", name, 0)
                   /\ returned = None
                   /\ next_block = j
                   /\ name \in DOMAIN config.workflows
                   /\ Len(config.workflows[name].steps) = Len(content[i].children)
                   /\ \A x \in DOMAIN content[i].children :
                         config.workflows[name].steps[x].step_type
                             = content[i].children[x].name

\* A name was repeated with a settings block between its two workflow
\* blocks, which hold different steps.
C20_Witness ==
    /\ parse_pc = "done"
    /\ Len(content) = 3
    /\ SameName(1, 3)
    /\ content[1] # content[3]
    /\ content[2].name = "settings"
    /\ WellFormed(content[2])
    /\ parse_error.kind = "DuplicateWorkflowName"

\* Block i of the input is a settings block.
SettingsBlock(i) == content[i].name \in { "settings", "Settings" }

\* The line of child x of block j of the input.
ChildLine(j, x) == StartingLine(content, j) + x

\* Child x of block i is followed, in block i or in a later settings block,
\* by a settings child of the same name.
NameRepeatedLater(i, x) ==
    \/ \E y \in DOMAIN content[i].children :
          y > x /\ content[i].children[y].name = content[i].children[x].name
    \/ \E j \in DOMAIN content :
          /\ j > i
          /\ SettingsBlock(j)
          /\ \E y \in DOMAIN content[j].children :
                content[j].children[y].name = content[i].children[x].name

\* The names of the child lines of the settings blocks of the input.
SettingNames ==
    UNION { { content[i].children[x].name : x \in DOMAIN content[i].children } :
              i \in { k \in DOMAIN content : SettingsBlock(k) } }

\* Every block before block j is well formed and no two of them are
\* workflow blocks of one name.
ValidBefore(j) ==
    /\ \A k \in 1 .. (j - 1) : WellFormed(content[k])
    /\ \A k, l \in 1 .. (j - 1) : ~SameName(k, l)

\* The entry of the settings map of config c under the name of child line
\* child is the one the line stands for: None for a line with no argument,
\* Some(the argument) for a line with one bare or quoted argument.
EntryOfChild(c, child) ==
    /\ child.name \in DOMAIN c.settings
    /\ Len(child.arguments) = 0 => c.settings[child.name] = None
    /\ ( /\ Len(child.arguments) = 1
         /\ child.arguments[1].rule \in { "argument_flag", "quoted_string_value" } ) =>
          c.settings[child.name] = Some(child.arguments[1].key)

\* A settings child line whose one argument has the key=value form, the
\* blocks and the child lines before it being valid, makes parse fail with
\* InvalidSettingArgumentFormat at its line, and no config is returned.
KeyValueSettingRejected ==
    \A j \in DOMAIN content : \A x \in DOMAIN content[j].children :
       ( /\ SettingsBlock(j)
         /\ content[j].arguments = << >>
         /\ ValidBefore(j)
         /\ \A y \in 1 .. (x - 1) :
               /\ Len(content[j].children[y].arguments) <= 1
               /\ \A a \in DOMAIN content[j].children[y].arguments :
                     content[j].children[y].arguments[a].rule # "key_value_pair"
         /\ Len(content[j].children[x].arguments) = 1
         /\ content[j].children[x].arguments[1].rule = "key_value_pair" ) =>
           /\ parse_error = ConfigParseError("InvalidSettingArgumentFormat", "",
                                             ChildLine(j, x))
           /\ returned = None

\* C21 as stated: when parse returns a config, every child line of a
\* settings block has its own entry of the settings map under its name,
\* None for a line with no argument and Some(the argument) for a line with
\* one bare or quoted argument; a child line whose argument has the
\* key=value form makes parse fail with InvalidSettingArgumentFormat.
C21_EveryChildKeepsItsEntry ==
    parse_pc = "done" =>
        /\ returned # None =>
              /\ DOMAIN returned[1].settings = SettingNames
              /\ \A i \in DOMAIN content : \A x \in DOMAIN content[i].children :
                    SettingsBlock(i) =>
                        EntryOfChild(returned[1], content[i].children[x])
        /\ KeyValueSettingRejected

\* C21 amended: when parse returns a config, the settings map holds one
\* entry per name of a settings child line and no other entry, and the entry
\* of a name is that of the last child line of the name: None for a line
\* with no argument, Some(the argument) for a line with one bare or quoted
\* argument; a child line whose argument has the key=value form makes parse
\* fail with InvalidSettingArgumentFormat.
C21_SettingsChildrenBecomeEntries ==
    parse_pc = "done" =>
        /\ returned # None =>
              /\ DOMAIN returned[1].settings = SettingNames
              /\ \A i \in DOMAIN content : \A x \in DOMAIN content[i].children :
                    (SettingsBlock(i) /\ ~NameRepeatedLater(i, x)) =>
                        EntryOfChild(returned[1], content[i].children[x])
        /\ KeyValueSettingRejected

\* Both settings blocks of the input were read: three child lines, then a
\* child line that repeats the name of the first.
C21_Witness ==
    /\ parse_pc = "done"
    /\ returned # None
    /\ Len(content) = 2
    /\ SettingsBlock(1) /\ Len(content[1].children) = 3
    /\ SettingsBlock(2) /\ NameRepeatedLater(1, 1)
    /\ returned[1].settings =
          [ k \in { "first", "second", "flag" } |->
              CASE k = "first" -> Some("b")
                [] k = "second" -> Some("program files")
                [] k = "flag" -> None ]

\* The workflow blocks of the input.
WorkflowBlock(i) == content[i].name \in { "workflow", "Workflow" }

\* Argument a of a child line is followed on the line by an argument of the
\* same key.
KeyRepeatedLater(child, a) ==
    \E b \in DOMAIN child.arguments :
       b > a /\ child.arguments[b].key = child.arguments[a].key

\* The entry of the parameters of step under the key of argument is the
\* one the argument stands for: None for a flag or a quoted argument,
\* Some(value) for key=value, without the quotes of a quoted value.
EntryOfArgument(step, argument) ==
    /\ argument.key \in DOMAIN step.parameters
    /\ step.parameters[argument.key] =
          IF argument.rule # "key_value_pair" THEN None
          ELSE IF argument.quoted # None THEN Some(argument.quoted[1])
          ELSE Some(argument.value)

\* When parse returns a config, the definition held under the name of
\* workflow block i has one step per child line of the block, in the order
\* of the lines, the type of a step being the identifier of its line.
OneStepPerChildLine(i) ==
    LET name == content[i].arguments[1].key
        children == content[i].children
    IN /\ name \in DOMAIN returned[1].workflows
       /\ returned[1].workflows[name].name = name
       /\ Len(returned[1].workflows[name].steps) = Len(children)
       /\ \A x \in DOMAIN children :
             /\ returned[1].workflows[name].steps[x].step_type = children[x].name
             /\ DOMAIN returned[1].workflows[name].steps[x].parameters =
                   { children[x].arguments[a].key : a \in DOMAIN children[x].arguments }

\* C22 as stated: the definition parsed from a workflow block has one step
\* per child line, in the order of the lines, with the line's identifier as
\* step type, and every argument of the line has its own entry of the
\* parameters: None for a flag, Some(value) for key=value.
C22_EveryArgumentKeepsItsEntry ==
    (parse_pc = "done" /\ returned # None) =>
        \A i \in DOMAIN content :
           WorkflowBlock(i) =>
              /\ OneStepPerChildLine(i)
              /\ \A x \in DOMAIN content[i].children :
                    \A a \in DOMAIN content[i].children[x].arguments :
                       EntryOfArgument(
                          returned[1].workflows[content[i].arguments[1].key].steps[x],
                          content[i].children[x].arguments[a])

\* C22 amended: the definition parsed from a workflow block has one step
\* per child line, in the order of the lines, with the line's identifier as
\* step type; the parameters hold one entry per argument key of the line,
\* which is that of the last argument of the key: None for a flag,
\* Some(value) for key=value.
C22_StepsInTextualOrder ==
    (parse_pc = "done" /\ returned # None) =>
        \A i \in DOMAIN content :
           WorkflowBlock(i) =>
              /\ OneStepPerChildLine(i)
              /\ \A x \in DOMAIN content[i].children :
                    \A a \in DOMAIN content[i].children[x].arguments :
                       ~KeyRepeatedLater(content[i].children[x], a) =>
                          EntryOfArgument(
                             returned[1].workflows[content[i].arguments[1].key].steps[x],
                             content[i].children[x].arguments[a])

\* The workflow of two child lines was read after another workflow block.
C22_Witness ==
    /\ parse_pc = "done"
    /\ returned # None
    /\ \E i \in DOMAIN content :
          /\ i > 1
          /\ WorkflowBlock(i)
          /\ Len(content[i].children) = 2
          /\ LET steps == returned[1].workflows["name"].steps
             IN /\ steps[1].step_type = "rtmp_receive"
                /\ steps[2].step_type = "hls"
                /\ steps[2].parameters =
                      [ k \in { "segment_size", "size", "flag" } |->
                          CASE k = "segment_size" -> Some("3")
                            [] k = "size" -> Some("1x1")
                            [] k = "flag" -> None ]

\* Child x of settings block j is the first thing of the input that parse
\* may reject: the header of the block holds no argument, the blocks before
\* it are valid, and the child lines before it hold one argument at most,
\* not of the key=value form.
FirstSuspectChild(j, x) ==
    /\ SettingsBlock(j)
    /\ content[j].arguments = << >>
    /\ ValidBefore(j)
    /\ \A y \in 1 .. (x - 1) :
          /\ Len(content[j].children[y].arguments) <= 1
          /\ \A a \in DOMAIN content[j].children[y].arguments :
                content[j].children[y].arguments[a].rule # "key_value_pair"

\* C36: a settings child line that holds more than one argument, whatever
\* the arguments are, makes parse fail with TooManySettingArguments at the
\* line of the child, and no config is returned.
C36_TooManySettingArgumentsRejected ==
    parse_pc = "done" =>
        \A j \in DOMAIN content : \A x \in DOMAIN content[j].children :
           (FirstSuspectChild(j, x) /\ Len(content[j].children[x].arguments) > 1) =>
               /\ parse_error = ConfigParseError("TooManySettingArguments", "",
                                                 ChildLine(j, x))
               /\ returned = None

(***************************************************************************)
(* The H264 media sender on its own.  Its caller passes it RTP packets of  *)
(* any kind in any order.                                                  *)
(***************************************************************************)
NALU_TTYPE_STAP_A == 24
NALU_TTYPE_SPS == 7
NALU_TYPE_BITMASK == 32     \* x & 0x1F is x % 32
NALU_TTYPE_FU_A == 28
FU_END_BITMASK == 64        \* bit 0x40 of the FU header
ANNEXB_NALUSTART_CODE == << 0, 0, 0, 1 >>

\* The payloads of the packets the caller passes: none, an SPS, a STAP-A
\* that holds an SPS, a slice of a picture that is not a key frame, the
\* first and the last fragment of such a slice, and a slice of two bytes.
Payloads ==
    { << >>,
      << 103, 66, 0, 30 >>,
      << 120, 0, 1, 103 >>,
      << 65, 154, 0, 0 >>,
      << 124, 129, 1, 2 >>,
      << 124, 65, 3, 4 >>,
      << 65, 154 >> }

\* is_key_frame: the low five bits of the first byte of the big-endian word
\* of the first four bytes, and the low five bits of the word.
is_key_frame(data) ==
    IF Len(data) < 4
    THEN FALSE
    ELSE LET nalu_type == data[1] % NALU_TYPE_BITMASK IN
         \/ (nalu_type = NALU_TTYPE_STAP_A
               /\ data[4] % NALU_TYPE_BITMASK = NALU_TTYPE_SPS)
         \/ nalu_type = NALU_TTYPE_SPS

\* The NAL units of a STAP-A from offset on, each behind a start code; an
\* error if a unit is longer than what is left of the packet.
RECURSIVE StapAUnits(_, _)
StapAUnits(packet, offset) ==
    IF offset + 1 > Len(packet)
    THEN Some(<<>>)
    ELSE LET size == packet[offset] * 256 + packet[offset + 1]
             from == offset + 2 IN
         IF Len(packet) < from + size - 1
         THEN None
         ELSE LET rest == StapAUnits(packet, from + size) IN
              IF rest = None
              THEN None
              ELSE Some(ANNEXB_NALUSTART_CODE
                          \o SubSeq(packet, from, from + size - 1) \o rest[1])

\* H264Packet::depacketize of the rtp crate, in Annex B form: the packet
\* cached, and the h264 packet that is complete with this RTP packet (empty
\* if none is) or an error.
depacketize(cached, packet) ==
    IF Len(packet) <= 2
    THEN [ cached |-> cached, payload |-> None ]
    ELSE LET nalu_type == packet[1] % NALU_TYPE_BITMASK IN
         IF nalu_type \in 1 .. 23
         THEN [ cached |-> cached,
                payload |-> Some(ANNEXB_NALUSTART_CODE \o packet) ]
         ELSE IF nalu_type = NALU_TTYPE_STAP_A
         THEN [ cached |-> cached, payload |-> StapAUnits(packet, 2) ]
         ELSE IF nalu_type = NALU_TTYPE_FU_A
         THEN LET buffer == (IF cached = None THEN <<>> ELSE cached[1])
                               \o SubSeq(packet, 3, Len(packet)) IN
              IF (packet[2] \div FU_END_BITMASK) % 2 = 1
              THEN [ cached |-> None,
                     payload |->
                        Some(ANNEXB_NALUSTART_CODE
                               \o << (packet[1] \div NALU_TYPE_BITMASK) * NALU_TYPE_BITMASK
                                        + (packet[2] % NALU_TYPE_BITMASK) >>
                               \o buffer) ]
              ELSE [ cached |-> Some(buffer), payload |-> Some(<<>>) ]
         ELSE [ cached |-> cached, payload |-> None ]

\* The H264MediaSender as send_rtp_data finds it.
Sender ==
    [ media_channel |-> media_channel, cached_packet |-> cached_packet,
      has_sent_keyframe |-> has_sent_keyframe ]

\* MediaNotificationContent::Video as send_rtp_data builds it.
SenderVideo(is_keyframe, data) ==
    [ codec |-> "H264", is_sequence_header |-> FALSE,
      is_keyframe |-> is_keyframe, data |-> data ]

\* send_rtp_data: the sender it leaves and what became of the packet.  The
\* Ok(()) of the test for an empty payload is not returned, so an empty
\* payload goes on to the test for a key frame.  No statement assigns
\* has_sent_keyframe.
send_rtp_data(s, payload) ==
    LET key == is_key_frame(payload) IN
    IF ~s.has_sent_keyframe /\ ~key
    THEN [ sender |-> s, outcome |-> "dropped" ]
    ELSE LET d == depacketize(s.cached_packet, payload) IN
         IF d.payload = None
         THEN [ sender |-> [ s EXCEPT !.cached_packet = d.cached ],
                outcome |-> "error" ]
         ELSE IF d.payload[1] # <<>>
         THEN [ sender |-> [ s EXCEPT !.cached_packet = d.cached,
                                      !.media_channel =
                                          Append(@, SenderVideo(key, d.payload[1])) ],
                outcome |-> "forwarded" ]
         ELSE [ sender |-> [ s EXCEPT !.cached_packet = d.cached ],
                outcome |-> "partial" ]

\* The caller passes one RTP packet to send_rtp_data.
SendRtpData(payload) ==
    /\ Len(sender_log) < MaxPackets
    /\ LET r == send_rtp_data(Sender, payload) IN
          /\ media_channel' = r.sender.media_channel
          /\ cached_packet' = r.sender.cached_packet
          /\ has_sent_keyframe' = r.sender.has_sent_keyframe
          /\ sender_log' = Append(sender_log, [ payload |-> payload,
                                                outcome |-> r.outcome ])
    /\ UNCHANGED << vars, reactor_vars, config_vars, receiver_vars >>

SenderNext == \E payload \in Payloads : SendRtpData(payload)

SenderSpec == Init /\ [][SenderNext]_sender_vars

(***************************************************************************)
(* Properties of the H264 media sender.                                    *)
(***************************************************************************)
\* C40: once send_rtp_data has processed a key-frame packet, no later
\* packet with a non-empty payload, key frame or not, is dropped: each is
\* passed to depacketize, and the h264 packet it completes is forwarded on
\* the media channel.
C40_ForwardedAfterFirstKeyFrame ==
    \A i \in DOMAIN sender_log : \A j \in DOMAIN sender_log :
       ( /\ i < j
         /\ is_key_frame(sender_log[i].payload)
         /\ sender_log[j].payload # <<>> ) =>
           sender_log[j].outcome # "dropped"
====
